---- MODULE Spec2Model ----
(***************************************************************************)
(* The four-layer prescription firewall of src/firewall_engine.py          *)
(* (class PrescriptionFirewall) as a state machine.                        *)
(*                                                                         *)
(* Python strings are sequences of one-character strings, so that          *)
(* str.lower, str.strip, str.split, str.startswith and the substring test  *)
(* `in` are computed and not assumed.  A pandas table is a record          *)
(* [loaded, cols, rows]; `loaded = FALSE` is the Python value None.        *)
(***************************************************************************)
EXTENDS Integers, Sequences, FiniteSets, TLC

(***************************************************************************)
(* String literals of the source.                                          *)
(***************************************************************************)
s_Active == <<"A", "c", "t", "i", "v", "e">>
s_A == <<"A">>
s_nan == <<"n", "a", "n">>
s_normal == <<"n", "o", "r", "m", "a", "l">>
s_severe == <<"s", "e", "v", "e", "r", "e">>
s_impaired == <<"i", "m", "p", "a", "i", "r", "e", "d">>
s_heroin == <<"h", "e", "r", "o", "i", "n">>
s_fentanyl_street == <<"f", "e", "n", "t", "a", "n", "y", "l", "_", "s", "t", "r", "e", "e", "t">>
s_meth == <<"m", "e", "t", "h">>
s_cocaine == <<"c", "o", "c", "a", "i", "n", "e">>
s_pcp == <<"p", "c", "p">>
s_oxycodone == <<"o", "x", "y", "c", "o", "d", "o", "n", "e">>
s_morphine == <<"m", "o", "r", "p", "h", "i", "n", "e">>
s_hydrocodone == <<"h", "y", "d", "r", "o", "c", "o", "d", "o", "n", "e">>
s_codeine == <<"c", "o", "d", "e", "i", "n", "e">>
s_paracetamol == <<"p", "a", "r", "a", "c", "e", "t", "a", "m", "o", "l">>
s_ibuprofen == <<"i", "b", "u", "p", "r", "o", "f", "e", "n">>
s_aspirin == <<"a", "s", "p", "i", "r", "i", "n">>
s_metformin == <<"m", "e", "t", "f", "o", "r", "m", "i", "n">>
s_lisinopril == <<"l", "i", "s", "i", "n", "o", "p", "r", "i", "l">>
s_atenolol == <<"a", "t", "e", "n", "o", "l", "o", "l">>
s_vitamin_d == <<"v", "i", "t", "a", "m", "i", "n", "_", "d">>
s_atorvastatin == <<"a", "t", "o", "r", "v", "a", "s", "t", "a", "t", "i", "n">>
s_amlodipine == <<"a", "m", "l", "o", "d", "i", "p", "i", "n", "e">>
s_albuterol == <<"a", "l", "b", "u", "t", "e", "r", "o", "l">>
s_insulin == <<"i", "n", "s", "u", "l", "i", "n">>
s_kidney_disease == <<"k", "i", "d", "n", "e", "y", "_", "d", "i", "s", "e", "a", "s", "e">>
s_ckd == <<"c", "k", "d">>
s_warfarin == <<"w", "a", "r", "f", "a", "r", "i", "n">>
s_semicolon == <<";">>
s_empty == <<>>

(***************************************************************************)
(* Values that are not strings: the float NaN pandas gives an empty cell,  *)
(* and Python's None passed where a string is expected.  Each is a         *)
(* one-element sequence whose element is no character.                     *)
(***************************************************************************)
NaN == <<"#NaN">>
NoneValue == <<"#None">>

(***************************************************************************)
(* Python string operations.                                               *)
(***************************************************************************)
UpperCase == <<"A", "B", "C", "D", "E", "F", "G", "H", "I", "J", "K", "L", "M", "N", "O", "P", "Q", "R", "S", "T", "U", "V", "W", "X", "Y", "Z">>
LowerCase == <<"a", "b", "c", "d", "e", "f", "g", "h", "i", "j", "k", "l", "m", "n", "o", "p", "q", "r", "s", "t", "u", "v", "w", "x", "y", "z">>

\* str.lower on one character
LowerChar(c) ==
  IF \E i \in 1..Len(UpperCase) : UpperCase[i] = c
  THEN LowerCase[CHOOSE i \in 1..Len(UpperCase) : UpperCase[i] = c]
  ELSE c

\* str.lower
Lower(s) == [i \in 1..Len(s) |-> LowerChar(s[i])]

\* the characters str.strip removes
IsSpace(c) == c \in {" ", "\t", "\n", "\r"}

RECURSIVE LStrip(_)
LStrip(s) == IF s # <<>> /\ IsSpace(Head(s)) THEN LStrip(Tail(s)) ELSE s

RECURSIVE RStrip(_)
RStrip(s) ==
  IF s # <<>> /\ IsSpace(s[Len(s)]) THEN RStrip(SubSeq(s, 1, Len(s) - 1)) ELSE s

\* str.strip
Strip(s) == RStrip(LStrip(s))

\* str.startswith
StartsWith(s, p) == Len(s) >= Len(p) /\ SubSeq(s, 1, Len(p)) = p

\* the substring test `sub in s` on two strings
Contains(s, sub) ==
  \E i \in 0..(Len(s) - Len(sub)) : SubSeq(s, i + 1, i + Len(sub)) = sub

\* str.split(d) for a one-character delimiter: "".split(";") is [""]
RECURSIVE SplitFrom(_, _, _)
SplitFrom(s, d, cur) ==
  IF s = <<>> THEN <<cur>>
  ELSE IF Head(s) = d THEN <<cur>> \o SplitFrom(Tail(s), d, <<>>)
  ELSE SplitFrom(Tail(s), d, Append(cur, Head(s)))

Split(s, d) == SplitFrom(s, d[1], <<>>)

\* str(x) of a cell value: str(float('nan')) is 'nan', str of a string is itself
Str(v) == IF v = NaN THEN s_nan ELSE v

\* pd.notna
notna(v) == v # NaN

\* list membership `x in lst`
InList(x, lst) == \E i \in 1..Len(lst) : lst[i] = x

\* str(lst) of a list of strings: "['a', 'b']"
RECURSIVE ReprItems(_)
ReprItems(lst) ==
  IF lst = <<>> THEN <<>>
  ELSE <<"'">> \o Head(lst) \o <<"'">>
       \o (IF Len(lst) > 1 THEN <<",", " ">> ELSE <<>>) \o ReprItems(Tail(lst))

StrList(lst) == <<"[">> \o ReprItems(lst) \o <<"]">>

(***************************************************************************)
(* Reference data: the contents the two spreadsheets may have, and the     *)
(* request values a caller may pass.                                       *)
(***************************************************************************)
d_Morphine == <<"M", "o", "r", "p", "h", "i", "n", "e", " ">>
d_HEROIN == <<" ", "H", "E", "R", "O", "I", "N">>
d_zinc == <<"z", "i", "n", "c">>
id_DOC001 == <<"D", "O", "C", "0", "0", "1">>
id_DOC002 == <<"D", "O", "C", "0", "0", "2">>
id_DOC003 == <<"D", "O", "C", "0", "0", "3">>
id_DOC004 == <<"D", "O", "C", "0", "0", "4">>
id_doc001 == <<"d", "o", "c", "0", "0", "1">>
id_P001 == <<"P", "0", "0", "1">>
id_P002 == <<"P", "0", "0", "2">>
id_P003 == <<"P", "0", "0", "3">>
id_P004 == <<"P", "0", "0", "4">>
id_P005 == <<"P", "0", "0", "5">>
id_P006 == <<"P", "0", "0", "6">>
id_P007 == <<"P", "0", "0", "7">>
id_P999 == <<"P", "9", "9", "9">>
n_Ann == <<"A", "n", "n">>
n_Bob == <<"B", "o", "b">>
n_Cy == <<"C", "y">>
n_Dee == <<"D", "e", "e">>
v_Suspended == <<"S", "u", "s", "p", "e", "n", "d", "e", "d">>
v_active == <<"a", "c", "t", "i", "v", "e">>
v_A12 == <<"A", "1", "2">>
v_B12 == <<"B", "1", "2">>
v_L1 == <<"L", "1">>
v_GP == <<"G", "P">>
v_hepatitis == <<"h", "e", "p", "a", "t", "i", "t", "i", "s">>
v_diabetes_kd == <<"d", "i", "a", "b", "e", "t", "e", "s", ";", " ", "k", "i", "d", "n", "e", "y", "_", "d", "i", "s", "e", "a", "s", "e">>
v_aspirin_warfarin == <<"l", "i", "s", "i", "n", "o", "p", "r", "i", "l", ";", " ", "w", "a", "r", "f", "a", "r", "i", "n">>
v_hypertension == <<"h", "y", "p", "e", "r", "t", "e", "n", "s", "i", "o", "n">>
v_CKD_diabetes == <<"C", "K", "D", ";", "d", "i", "a", "b", "e", "t", "e", "s">>
v_Warfarin == <<"W", "a", "r", "f", "a", "r", "i", "n">>
v_Severe == <<"S", "e", "v", "e", "r", "e">>
v_Impaired == <<"I", "m", "p", "a", "i", "r", "e", "d">>
v_ckd_stage3 == <<"h", "y", "p", "e", "r", "t", "e", "n", "s", "i", "o", "n", ";", "c", "k", "d", "_", "s", "t", "a", "g", "e", "3">>

PrescriberColumns == {"doctor_id", "name", "specialty", "credentialing_status", "dea_number", "license_number"}
PatientColumns == {"patient_id", "name", "age", "conditions", "medications", "liver_status", "kidney_status"}

\* a prescriber row
Doc(id, name, status, dea) ==
  [doctor_id |-> id, name |-> name, specialty |-> v_GP,
   credentialing_status |-> status, dea_number |-> dea, license_number |-> v_L1]

\* a patient row
Pat(id, name, conditions, medications, liver, kidney) ==
  [patient_id |-> id, name |-> name, age |-> 40, conditions |-> conditions,
   medications |-> medications, liver_status |-> liver, kidney_status |-> kidney]

PrescriberRows ==
  << Doc(id_DOC001, n_Ann, s_Active, v_A12),
     Doc(id_DOC002, n_Bob, v_Suspended, v_B12),
     Doc(id_DOC003, n_Cy, s_Active, v_B12),
     Doc(id_DOC004, n_Dee, v_active, v_A12) >>

PatientRows ==
  << Pat(id_P001, n_Ann, NaN, NaN, s_normal, s_normal),
     Pat(id_P002, n_Bob, v_hepatitis, NaN, s_severe, s_severe),
     Pat(id_P003, n_Cy, s_kidney_disease, NaN, s_normal, s_severe),
     Pat(id_P004, n_Dee, v_diabetes_kd, v_aspirin_warfarin, s_normal, s_impaired),
     Pat(id_P005, n_Ann, v_hypertension, s_warfarin, s_impaired, s_normal),
     Pat(id_P006, n_Bob, v_CKD_diabetes, v_Warfarin, v_Severe, v_Impaired),
     Pat(id_P007, n_Cy, v_ckd_stage3, NaN, NaN, NaN) >>

\* self.prescribers_df = None / self.patients_df = None
NoTable == [loaded |-> FALSE, cols |-> {}, rows |-> <<>>]

\* a DataFrame read from a spreadsheet with the given columns
Table(cols, rows) == [loaded |-> TRUE, cols |-> cols, rows |-> rows]

\* the contents pd.read_excel can return for the two files: the full sheets,
\* a sheet without its key column, a patient sheet without the optional
\* clinical columns, a patient sheet without the age column
PrescriberSheets ==
  { Table(PrescriberColumns, PrescriberRows),
    Table(PrescriberColumns \ {"doctor_id"}, PrescriberRows) }

PatientSheets ==
  { Table(PatientColumns, PatientRows),
    Table(PatientColumns \ {"patient_id"}, PatientRows),
    Table({"patient_id", "name", "age"}, PatientRows),
    Table(PatientColumns \ {"age"}, PatientRows) }

\* the request values
PrescriberIds == {id_DOC001, id_DOC002, id_DOC003, id_DOC004, id_doc001}
PatientIds == {id_P001, id_P002, id_P003, id_P004, id_P005, id_P006, id_P007, id_P999}
Drugs == {s_oxycodone, d_Morphine, s_heroin, d_HEROIN, s_aspirin, s_ibuprofen, s_metformin, d_zinc, NoneValue}
Doses == {30, 50, 75}

(***************************************************************************)
(* Bounds of the model.                                                    *)
(***************************************************************************)
\* analyze_prescription is called at most this many times in a run
MaxAnalyses == 2

\* the threads that may call into one firewall object
NumThreads == 2

Threads == 1..NumThreads

\* the sequential specification has one caller
SeqThreads == {1}

(***************************************************************************)
(* pandas access.                                                          *)
(***************************************************************************)
\* df[df[col] == key]: the rows whose cell equals key (NaN equals nothing)
Select(df, col, key) ==
  SelectSeq(df.rows, LAMBDA r : r[col] # NaN /\ r[col] = key)

\* Series.get(col, default)
Get(df, row, col, default) == IF col \in df.cols THEN row[col] ELSE default

\* the first of the columns cs (in order) the table lacks, or "" when it has
\* them all: row[col] raises KeyError(col) for it
RECURSIVE FirstMissing(_, _)
FirstMissing(df, cs) ==
  IF cs = <<>> THEN ""
  ELSE IF Head(cs) \notin df.cols THEN Head(cs)
  ELSE FirstMissing(df, Tail(cs))

(***************************************************************************)
(* Layer results, messages, exceptions.                                    *)
(***************************************************************************)
\* an f-string: its text with {} for each substituted value, the substituted
\* strings and the substituted numbers
Msg(fmt, s, n) == [fmt |-> fmt, s |-> s, n |-> n, e |-> <<>>]

\* f"Error in Layer k: {str(e)}" for the exception e
ErrMsg(fmt, exc) == [fmt |-> fmt, s |-> <<>>, n |-> <<>>, e |-> exc]

\* the dict {} given as details
EmptyDict == [k \in {} |-> k]

\* {"passed": ..., "message": ..., "details": ...}
Result(passed, message, details) ==
  [passed |-> passed, message |-> message, details |-> details]

\* an exception leaving a function body
Raise(exc) == [raised |-> TRUE, exc |-> exc]

IsRaise(r) == "raised" \in DOMAIN r

KeyError(col) == Raise(<<"KeyError", col>>)

AttributeError == Raise(<<"AttributeError", "lower">>)

\* a local variable not yet assigned
Unset == [unset |-> TRUE]

IsUnset(r) == "unset" \in DOMAIN r

(***************************************************************************)
(* Layer 0: doctor authorization.                                          *)
(***************************************************************************)
\* the body of the try block
layer0_try(df, prescriber_id) ==
  IF ~df.loaded
  THEN Result(FALSE, Msg("Database not loaded", <<>>, <<>>), EmptyDict)
  ELSE IF "doctor_id" \notin df.cols THEN KeyError("doctor_id")
  ELSE
    LET prescriber == Select(df, "doctor_id", prescriber_id) IN
    IF prescriber = <<>>
    THEN Result(FALSE,
                Msg("Prescriber {} not found in database", <<prescriber_id>>, <<>>),
                EmptyDict)
    ELSE
      LET prescriber_data == prescriber[1] IN
      IF "credentialing_status" \notin df.cols THEN KeyError("credentialing_status")
      ELSE IF prescriber_data.credentialing_status # s_Active
      THEN IF "name" \notin df.cols THEN KeyError("name")
           ELSE Result(FALSE,
                       Msg("Prescriber status: {}",
                           <<Str(prescriber_data.credentialing_status)>>, <<>>),
                       [status |-> prescriber_data.credentialing_status,
                        name |-> prescriber_data.name])
      ELSE IF "dea_number" \notin df.cols THEN KeyError("dea_number")
      ELSE IF ~StartsWith(Str(prescriber_data.dea_number), s_A)
      THEN Result(FALSE, Msg("Invalid DEA number format", <<>>, <<>>), EmptyDict)
      ELSE IF FirstMissing(df, <<"name", "specialty">>) # ""
      THEN KeyError(FirstMissing(df, <<"name", "specialty">>))
      ELSE Result(TRUE,
                  Msg("Prescriber {} authorized", <<Str(prescriber_data.name)>>, <<>>),
                  [name |-> prescriber_data.name,
                   specialty |-> prescriber_data.specialty,
                   status |-> prescriber_data.credentialing_status,
                   dea_number |-> prescriber_data.dea_number])

\* mutant: layer 0 without the DEA number check
layer0_dea_unchecked(df, prescriber_id) ==
  LET r == layer0_try(df, prescriber_id) IN
  IF IsRaise(r) THEN Result(FALSE, ErrMsg("Error in Layer 0: {}", r.exc), EmptyDict)
  ELSE IF r.message.fmt = "Invalid DEA number format"
  THEN Result(TRUE, Msg("Prescriber {} authorized", <<prescriber_id>>, <<>>), EmptyDict)
  ELSE r

\* mutant: layer 0 without its except clause, the error leaves the method
layer0_no_except(df, prescriber_id) == layer0_try(df, prescriber_id)

\* except Exception as e: the error becomes a failed result
layer0_doctor_authorization(df, prescriber_id) ==
  LET r == layer0_try(df, prescriber_id) IN
  IF IsRaise(r)
  THEN Result(FALSE, ErrMsg("Error in Layer 0: {}", r.exc), EmptyDict)
  ELSE r

(***************************************************************************)
(* Layer 1: patient validation.                                            *)
(***************************************************************************)
layer1_try(df, patient_id) ==
  IF ~df.loaded
  THEN Result(FALSE, Msg("Patient database not loaded", <<>>, <<>>), EmptyDict)
  ELSE IF "patient_id" \notin df.cols THEN KeyError("patient_id")
  ELSE
    LET patient == Select(df, "patient_id", patient_id) IN
    IF patient = <<>>
    THEN Result(FALSE, Msg("Patient {} not found", <<patient_id>>, <<>>), EmptyDict)
    ELSE
      LET patient_data == patient[1]
          \* .get('conditions') without default gives None, and pd.notna(None)
          \* is False
          hasConditions == "conditions" \in df.cols /\ notna(patient_data.conditions)
          hasMedications == "medications" \in df.cols /\ notna(patient_data.medications)
          conditions == IF hasConditions
                        THEN Split(Str(patient_data.conditions), s_semicolon)
                        ELSE <<>>
          medications == IF hasMedications
                         THEN Split(Str(patient_data.medications), s_semicolon)
                         ELSE <<>>
      IN
      IF FirstMissing(df, <<"name", "age">>) # ""
      THEN KeyError(FirstMissing(df, <<"name", "age">>))
      ELSE Result(TRUE,
                  Msg("Patient {} found", <<Str(patient_data.name)>>, <<>>),
                  [name |-> patient_data.name,
                   age |-> patient_data.age,
                   conditions |-> conditions,
                   medications |-> medications,
                   liver_status |-> Get(df, patient_data, "liver_status", s_normal),
                   kidney_status |-> Get(df, patient_data, "kidney_status", s_normal)])

\* mutant: layer 1 that refuses a patient whose liver status is severe
layer1_clinical_gate(df, patient_id) ==
  LET r == layer1_try(df, patient_id) IN
  IF IsRaise(r)
  THEN Result(FALSE, ErrMsg("Error in Layer 1: {}", r.exc), EmptyDict)
  ELSE IF r.passed /\ r.details.liver_status = s_severe
  THEN Result(FALSE, Msg("Patient {} not found", <<patient_id>>, <<>>), EmptyDict)
  ELSE r

layer1_patient_validation(df, patient_id) ==
  LET r == layer1_try(df, patient_id) IN
  IF IsRaise(r)
  THEN Result(FALSE, ErrMsg("Error in Layer 1: {}", r.exc), EmptyDict)
  ELSE r

(***************************************************************************)
(* Layer 2: drug safety.                                                   *)
(***************************************************************************)
illegal_drugs == <<s_heroin, s_fentanyl_street, s_meth, s_cocaine, s_pcp>>

\* the dict safe_dose_limits as a list of <<drug, limit>> pairs
safe_dose_limits ==
  << <<s_oxycodone, 50>>, <<s_morphine, 100>>, <<s_hydrocodone, 40>>,
     <<s_codeine, 60>>, <<s_paracetamol, 1000>>, <<s_ibuprofen, 800>>,
     <<s_aspirin, 500>>, <<s_metformin, 2550>>, <<s_lisinopril, 40>>,
     <<s_atenolol, 100>>, <<s_vitamin_d, 4000>>, <<s_atorvastatin, 80>>,
     <<s_amlodipine, 10>>, <<s_albuterol, 200>>, <<s_insulin, 300>> >>

\* drug_lower in safe_dose_limits
HasLimit(d) == \E i \in 1..Len(safe_dose_limits) : safe_dose_limits[i][1] = d

\* safe_dose_limits[drug_lower]
LimitOf(d) ==
  safe_dose_limits[CHOOSE i \in 1..Len(safe_dose_limits) : safe_dose_limits[i][1] = d][2]

layer2_try(drug, dose) ==
  \* drug.lower() on a value that is no string
  IF drug = NoneValue THEN AttributeError
  ELSE
    LET drug_lower == Strip(Lower(drug)) IN
    IF InList(drug_lower, illegal_drugs)
    THEN Result(FALSE, Msg("Drug '{}' is illegal/controlled substance", <<drug>>, <<>>),
                EmptyDict)
    ELSE IF HasLimit(drug_lower) /\ dose > LimitOf(drug_lower)
    THEN Result(FALSE,
                Msg("Dose {}mg exceeds safe limit of {}mg", <<>>,
                    <<dose, LimitOf(drug_lower)>>),
                [drug |-> drug, dose |-> dose, max_safe_dose |-> LimitOf(drug_lower)])
    ELSE Result(TRUE, Msg("Drug '{}' at {}mg is safe", <<drug>>, <<dose>>),
                [drug |-> drug, dose |-> dose, status |-> "valid"])

\* mutant: layer 2 without its except clause
layer2_no_except(drug, dose) == layer2_try(drug, dose)

\* mutant: layer 2 that looks the drug up in the illegal list as it was typed
layer2_raw_name(drug, dose) ==
  LET r == layer2_try(drug, dose) IN
  IF IsRaise(r)
  THEN Result(FALSE, ErrMsg("Error in Layer 2: {}", r.exc), EmptyDict)
  ELSE IF ~r.passed /\ r.details = EmptyDict /\ ~InList(drug, illegal_drugs)
  THEN Result(TRUE, Msg("Drug '{}' at {}mg is safe", <<drug>>, <<dose>>),
              [drug |-> drug, dose |-> dose, status |-> "valid"])
  ELSE r

\* mutant: layer 2 that refuses a dose equal to the limit
layer2_at_limit(drug, dose) ==
  LET r == layer2_try(drug, dose) IN
  IF IsRaise(r)
  THEN Result(FALSE, ErrMsg("Error in Layer 2: {}", r.exc), EmptyDict)
  ELSE IF r.passed /\ HasLimit(Strip(Lower(drug))) /\ dose = LimitOf(Strip(Lower(drug)))
  THEN Result(FALSE,
              Msg("Dose {}mg exceeds safe limit of {}mg", <<>>, <<dose, dose>>),
              [drug |-> drug, dose |-> dose, max_safe_dose |-> dose])
  ELSE r

layer2_drug_safety(drug, dose) ==
  LET r == layer2_try(drug, dose) IN
  IF IsRaise(r)
  THEN Result(FALSE, ErrMsg("Error in Layer 2: {}", r.exc), EmptyDict)
  ELSE r

(***************************************************************************)
(* Layer 3: contraindication detection.                                    *)
(***************************************************************************)
opioids == <<s_oxycodone, s_morphine, s_hydrocodone, s_codeine>>

nsaids == <<s_aspirin, s_ibuprofen>>

layer3_try(df, patient_id, drug, dose) ==
  IF ~df.loaded
  THEN Result(TRUE,
              Msg("Cannot check contraindications - patient DB unavailable", <<>>, <<>>),
              EmptyDict)
  ELSE IF "patient_id" \notin df.cols THEN KeyError("patient_id")
  ELSE
    LET patient == Select(df, "patient_id", patient_id) IN
    IF patient = <<>>
    THEN Result(TRUE, Msg("Patient not found for contraindication check", <<>>, <<>>),
                EmptyDict)
    ELSE
      LET patient_data == patient[1]
          conditions ==
            Split(Lower(Str(Get(df, patient_data, "conditions", s_empty))), s_semicolon)
          medications ==
            Split(Lower(Str(Get(df, patient_data, "medications", s_empty))), s_semicolon)
          liver_status == Lower(Str(Get(df, patient_data, "liver_status", s_normal)))
          kidney_status == Lower(Str(Get(df, patient_data, "kidney_status", s_normal)))
      IN
      IF drug = NoneValue THEN AttributeError
      ELSE
        LET drug_lower == Strip(Lower(drug)) IN
        IF InList(drug_lower, opioids) /\ InList(liver_status, <<s_severe, s_impaired>>)
        THEN Result(FALSE,
                    Msg("CONTRAINDICATION: {} contraindicated with {} liver disease",
                        <<drug, liver_status>>, <<>>),
                    [reason |-> "opioids_liver_disease", severity |-> "CRITICAL"])
        ELSE IF InList(drug_lower, opioids) /\ kidney_status = s_severe
        THEN Result(FALSE,
                    Msg("CONTRAINDICATION: {} contraindicated with severe kidney disease",
                        <<drug>>, <<>>),
                    [reason |-> "opioids_kidney_disease", severity |-> "CRITICAL"])
        ELSE IF /\ InList(drug_lower, nsaids)
                /\ \/ InList(s_kidney_disease, conditions)
                   \/ Contains(StrList(conditions), s_ckd)
        THEN Result(FALSE,
                    Msg("CONTRAINDICATION: NSAIDs contraindicated with kidney disease",
                        <<>>, <<>>),
                    [reason |-> "nsaid_kidney_disease", severity |-> "HIGH"])
        ELSE IF drug_lower = s_aspirin /\ InList(s_warfarin, medications)
        THEN Result(FALSE,
                    Msg("CONTRAINDICATION: Aspirin-Warfarin interaction (bleeding risk)",
                        <<>>, <<>>),
                    [reason |-> "drug_drug_interaction", severity |-> "CRITICAL",
                     interaction |-> "aspirin_warfarin"])
        ELSE IF drug_lower = s_metformin /\ InList(kidney_status, <<s_impaired, s_severe>>)
        THEN Result(FALSE,
                    Msg("CONTRAINDICATION: Metformin contraindicated with kidney impairment",
                        <<>>, <<>>),
                    [reason |-> "metformin_kidney_disease", severity |-> "HIGH"])
        ELSE Result(TRUE, Msg("No contraindications detected", <<>>, <<>>),
                    [checked |-> TRUE, conditions |-> conditions, status |-> "safe"])

\* mutant: layer 3 fails closed, as layer 1 does, when the table or the patient
\* is missing
layer3_fail_closed(df, patient_id, drug, dose) ==
  LET r == layer3_try(df, patient_id, drug, dose) IN
  IF IsRaise(r) THEN Result(TRUE, ErrMsg("Warning in Layer 3: {}", r.exc), EmptyDict)
  ELSE IF r.message.fmt \in {"Cannot check contraindications - patient DB unavailable",
                             "Patient not found for contraindication check"}
  THEN [r EXCEPT !.passed = FALSE]
  ELSE r

\* mutant: the except clause of layer 3 copied from layers 0..2
layer3_error_fails(df, patient_id, drug, dose) ==
  LET r == layer3_try(df, patient_id, drug, dose) IN
  IF IsRaise(r)
  THEN Result(FALSE, ErrMsg("Error in Layer 3: {}", r.exc), EmptyDict)
  ELSE r

\* mutant: layer 3 with the opioid kidney rule tested before the opioid liver
\* rule
layer3_kidney_first(df, patient_id, drug, dose) ==
  LET r == layer3_try(df, patient_id, drug, dose) IN
  IF IsRaise(r) THEN Result(TRUE, ErrMsg("Warning in Layer 3: {}", r.exc), EmptyDict)
  ELSE IF /\ ~r.passed
          /\ r.details.reason = "opioids_liver_disease"
          /\ Lower(Str(Get(df, Select(df, "patient_id", patient_id)[1],
                           "kidney_status", s_normal))) = s_severe
  THEN Result(FALSE,
              Msg("CONTRAINDICATION: {} contraindicated with severe kidney disease",
                  <<drug>>, <<>>),
              [reason |-> "opioids_kidney_disease", severity |-> "CRITICAL"])
  ELSE r

\* mutant: layer 3 whose metformin rule looks for severe kidney status only
layer3_metformin_severe(df, patient_id, drug, dose) ==
  LET r == layer3_try(df, patient_id, drug, dose) IN
  IF IsRaise(r) THEN Result(TRUE, ErrMsg("Warning in Layer 3: {}", r.exc), EmptyDict)
  ELSE IF /\ ~r.passed
          /\ r.details.reason = "metformin_kidney_disease"
          /\ Lower(Str(Get(df, Select(df, "patient_id", patient_id)[1],
                           "kidney_status", s_normal))) = s_impaired
  THEN Result(TRUE, Msg("No contraindications detected", <<>>, <<>>),
              [checked |-> TRUE,
               conditions |->
                 Split(Lower(Str(Get(df, Select(df, "patient_id", patient_id)[1],
                                     "conditions", s_empty))), s_semicolon),
               status |-> "safe"])
  ELSE r

\* except Exception as e: the error becomes a PASSED result (fail-open)
layer3_contraindication_detection(df, patient_id, drug, dose) ==
  LET r == layer3_try(df, patient_id, drug, dose) IN
  IF IsRaise(r)
  THEN Result(TRUE, ErrMsg("Warning in Layer 3: {}", r.exc), EmptyDict)
  ELSE r

(***************************************************************************)
(* State.                                                                  *)
(***************************************************************************)
VARIABLES
  prescribers_df,   \* self.prescribers_df
  patients_df,      \* self.patients_df
  analysis_count,   \* self.analysis_count
  approved_count,   \* self.approved_count
  pc,               \* per thread: where its call stands
  op,               \* per thread: the method it called
  args,             \* per thread: the arguments of the call
  layer0,           \* per thread: the locals layer0..layer3 of analyze_prescription
  layer1,
  layer2,
  layer3,
  evaluated,        \* per thread: the layers evaluated so far by the call, in order
  ret,              \* per thread: the value returned (or the exception raised)
  first,            \* per thread: when this call repeats the previous one, the verdict
                    \* of that call with the store and the counters it left
  tmp,              \* per thread: the value loaded by the += in progress
  seen,             \* per thread: the table each layer of the call in flight read
  loader,           \* where a second call of initialize() stands
  published,        \* the pairs of tables initialize() was to publish, in order
  tally             \* the calls of analyze_prescription started, returned, and
                    \* returned with an approved verdict

vars == <<prescribers_df, patients_df, analysis_count, approved_count, pc, op, args,
          layer0, layer1, layer2, layer3, evaluated, ret, first,
          tmp, seen, loader, published, tally>>

store == <<prescribers_df, patients_df>>

counters == <<analysis_count, approved_count>>

locals == <<layer0, layer1, layer2, layer3>>

\* what only the concurrent specification writes
conc == <<tmp, seen, loader, published, tally>>

\* no layer of the call has read a table yet
NothingSeen == [prescribers0 |-> Unset, patients1 |-> Unset, patients3 |-> Unset]

NoCalls == [started |-> 0, returned |-> 0, approved |-> 0]

\* the arguments of analyze_prescription
Requests ==
  [prescriber_id : PrescriberIds, patient_id : PatientIds, drug : Drugs, dose : Doses]

NoArgs == [none |-> TRUE]

\* mutant: an exception in the second read leaves the prescriber table loaded
LoadOutcomes_partial ==
  {<<p, q>> : p \in PrescriberSheets, q \in PatientSheets}
    \cup {<<NoTable, NoTable>>, <<Table(PrescriberColumns, PrescriberRows), NoTable>>}

\* the outcomes of initialize(): both sheets read, or an exception in either
\* read, after which both tables are None
LoadOutcomes ==
  {<<p, q>> : p \in PrescriberSheets, q \in PatientSheets} \cup {<<NoTable, NoTable>>}

\* __init__: the tables are loaded by initialize(), the counters are 0
Init ==
  /\ \E s \in LoadOutcomes : prescribers_df = s[1] /\ patients_df = s[2]
  /\ analysis_count = 0
  /\ approved_count = 0
  /\ pc = [t \in Threads |-> "idle"]
  /\ op = [t \in Threads |-> "none"]
  /\ args = [t \in Threads |-> NoArgs]
  /\ layer0 = [t \in Threads |-> Unset]
  /\ layer1 = [t \in Threads |-> Unset]
  /\ layer2 = [t \in Threads |-> Unset]
  /\ layer3 = [t \in Threads |-> Unset]
  /\ evaluated = [t \in Threads |-> <<>>]
  /\ ret = [t \in Threads |-> Unset]
  /\ first = [t \in Threads |-> Unset]
  /\ tmp = [t \in Threads |-> 0]
  /\ seen = [t \in Threads |-> NothingSeen]
  /\ loader = "idle"
  /\ published = <<>>
  /\ tally = NoCalls

(***************************************************************************)
(* initialize(), called again after construction (the API's startup hook). *)
(***************************************************************************)
initialize ==
  /\ \A t \in Threads : pc[t] = "idle"
  /\ \E s \in LoadOutcomes : prescribers_df' = s[1] /\ patients_df' = s[2]
  /\ UNCHANGED <<counters, pc, op, args, locals, evaluated, ret, first>>
  /\ UNCHANGED conc

(***************************************************************************)
(* analyze_prescription.                                                   *)
(***************************************************************************)
\* {"passed": False, "message": "Skipped - Layer k failed"}: no details key
Skipped(k) ==
  [passed |-> FALSE,
   message |-> Msg(CASE k = 0 -> "Skipped - Layer 0 failed"
                     [] k = 1 -> "Skipped - Layer 1 failed"
                     [] k = 2 -> "Skipped - Layer 2 failed",
                   <<>>, <<>>)]

ApprovedReason == Msg("APPROVED - All 4 layers passed", <<>>, <<>>)

\* the dict analyze_prescription returns (the timestamp left out)
Verdict(a, approved, l0, l1, l2, l3, score, reason) ==
  [approved |-> approved, prescriber_id |-> a.prescriber_id,
   patient_id |-> a.patient_id, drug |-> a.drug, dose |-> a.dose,
   layer0 |-> l0, layer1 |-> l1, layer2 |-> l2, layer3 |-> l3,
   safety_score |-> score, reason |-> reason]

IsVerdict(v) == "safety_score" \in DOMAIN v

\* mutant: after a layer 0 failure layer 1 is still evaluated for the verdict
ReturnLayer0Failed_probing(a, l0) ==
  Verdict(a, FALSE, l0, layer1_patient_validation(patients_df, a.patient_id),
          Skipped(0), Skipped(0), 0, l0.message)

\* the return when layer 0 did not pass
ReturnLayer0Failed(a, l0) ==
  Verdict(a, FALSE, l0, Skipped(0), Skipped(0), Skipped(0), 0, l0.message)

\* the return when layer 1 did not pass
ReturnLayer1Failed(a, l0, l1) ==
  Verdict(a, FALSE, l0, l1, Skipped(1), Skipped(1), 25, l1.message)

\* mutant: the layer 2 block copied from the layer 1 block, the reason left
ReturnLayer2Failed_reason1(a, l0, l1, l2) ==
  Verdict(a, FALSE, l0, l1, l2, Skipped(2), 50, l1.message)

\* the return when layer 2 did not pass
ReturnLayer2Failed(a, l0, l1, l2) ==
  Verdict(a, FALSE, l0, l1, l2, Skipped(2), 50, l2.message)

\* mutant: the layer 3 block copied from the approval block, approved left True
ReturnLayer3Failed_approved(a, l0, l1, l2, l3) ==
  Verdict(a, TRUE, l0, l1, l2, l3, 25, l3.message)

\* mutant: the score of a layer 3 failure adds up the layers passed before it
ReturnLayer3Failed_summed(a, l0, l1, l2, l3) ==
  Verdict(a, FALSE, l0, l1, l2, l3, 75, l3.message)

\* the return when layer 3 did not pass
ReturnLayer3Failed(a, l0, l1, l2, l3) ==
  Verdict(a, FALSE, l0, l1, l2, l3, 25, l3.message)

\* mutant: the score of an approval is derived from the approval counter
ReturnApproved_counted(a, l0, l1, l2, l3) ==
  Verdict(a, TRUE, l0, l1, l2, l3, IF approved_count = 0 THEN 100 ELSE 50, ApprovedReason)

\* the return when all four layers passed
ReturnApproved(a, l0, l1, l2, l3) ==
  Verdict(a, TRUE, l0, l1, l2, l3, 100, ApprovedReason)

\* mutant: a call is entered without being counted
Enter_uncounted(t, a, prev) ==
  /\ analysis_count < MaxAnalyses
  /\ analysis_count' = analysis_count
  /\ pc' = [pc EXCEPT ![t] = "layer0"]
  /\ op' = [op EXCEPT ![t] = "analyze_prescription"]
  /\ args' = [args EXCEPT ![t] = a]
  /\ layer0' = [layer0 EXCEPT ![t] = Unset]
  /\ layer1' = [layer1 EXCEPT ![t] = Unset]
  /\ layer2' = [layer2 EXCEPT ![t] = Unset]
  /\ layer3' = [layer3 EXCEPT ![t] = Unset]
  /\ evaluated' = [evaluated EXCEPT ![t] = <<>>]
  /\ ret' = [ret EXCEPT ![t] = Unset]
  /\ first' = [first EXCEPT ![t] = prev]
  /\ UNCHANGED <<store, approved_count>>
  /\ UNCHANGED conc

\* the call is entered: self.analysis_count += 1
Enter(t, a, prev) ==
  /\ analysis_count < MaxAnalyses
  /\ analysis_count' = analysis_count + 1
  /\ pc' = [pc EXCEPT ![t] = "layer0"]
  /\ op' = [op EXCEPT ![t] = "analyze_prescription"]
  /\ args' = [args EXCEPT ![t] = a]
  /\ layer0' = [layer0 EXCEPT ![t] = Unset]
  /\ layer1' = [layer1 EXCEPT ![t] = Unset]
  /\ layer2' = [layer2 EXCEPT ![t] = Unset]
  /\ layer3' = [layer3 EXCEPT ![t] = Unset]
  /\ evaluated' = [evaluated EXCEPT ![t] = <<>>]
  /\ ret' = [ret EXCEPT ![t] = Unset]
  /\ first' = [first EXCEPT ![t] = prev]
  /\ UNCHANGED <<store, approved_count>>
  /\ UNCHANGED conc

\* a caller calls analyze_prescription(prescriber_id, patient_id, drug, dose)
AnalyzeCall(t) ==
  /\ pc[t] = "idle"
  /\ \E a \in Requests : Enter(t, a, Unset)

\* a caller that received a verdict calls again with the same four arguments
AnalyzeAgain(t) ==
  /\ pc[t] = "done"
  /\ op[t] = "analyze_prescription"
  /\ IsVerdict(ret[t])
  /\ Enter(t, args[t],
           [verdict |-> ret[t], prescribers_df |-> prescribers_df,
            patients_df |-> patients_df, analysis_count |-> analysis_count,
            approved_count |-> approved_count])

\* layer0 = self.layer0_doctor_authorization(prescriber_id), and the return
\* when it did not pass
AnalyzeLayer0(t) ==
  /\ pc[t] = "layer0"
  /\ LET a == args[t]
         r == layer0_doctor_authorization(prescribers_df, a.prescriber_id)
         passed == ~IsRaise(r) /\ r.passed
     IN
     /\ evaluated' = [evaluated EXCEPT ![t] = Append(@, 0)]
     /\ layer0' = [layer0 EXCEPT ![t] = IF IsRaise(r) THEN @ ELSE r]
     /\ pc' = [pc EXCEPT ![t] = IF passed THEN "layer1" ELSE "done"]
     /\ ret' = [ret EXCEPT ![t] = IF IsRaise(r) THEN r
                                  ELSE IF ~r.passed THEN ReturnLayer0Failed(a, r)
                                  ELSE @]
  /\ UNCHANGED <<store, counters, op, args, layer1, layer2, layer3, first>>
  /\ UNCHANGED conc

\* layer1 = self.layer1_patient_validation(patient_id), and the return when
\* it did not pass
AnalyzeLayer1(t) ==
  /\ pc[t] = "layer1"
  /\ LET a == args[t]
         r == layer1_patient_validation(patients_df, a.patient_id)
         passed == ~IsRaise(r) /\ r.passed
     IN
     /\ evaluated' = [evaluated EXCEPT ![t] = Append(@, 1)]
     /\ layer1' = [layer1 EXCEPT ![t] = IF IsRaise(r) THEN @ ELSE r]
     /\ pc' = [pc EXCEPT ![t] = IF passed THEN "layer2" ELSE "done"]
     /\ ret' = [ret EXCEPT ![t] = IF IsRaise(r) THEN r
                                  ELSE IF ~r.passed THEN ReturnLayer1Failed(a, layer0[t], r)
                                  ELSE @]
  /\ UNCHANGED <<store, counters, op, args, layer0, layer2, layer3, first>>
  /\ UNCHANGED conc

\* layer2 = self.layer2_drug_safety(drug, dose), and the return when it did
\* not pass
AnalyzeLayer2(t) ==
  /\ pc[t] = "layer2"
  /\ LET a == args[t]
         r == layer2_drug_safety(a.drug, a.dose)
         passed == ~IsRaise(r) /\ r.passed
     IN
     /\ evaluated' = [evaluated EXCEPT ![t] = Append(@, 2)]
     /\ layer2' = [layer2 EXCEPT ![t] = IF IsRaise(r) THEN @ ELSE r]
     /\ pc' = [pc EXCEPT ![t] = IF passed THEN "layer3" ELSE "done"]
     /\ ret' = [ret EXCEPT ![t] =
                  IF IsRaise(r) THEN r
                  ELSE IF ~r.passed THEN ReturnLayer2Failed(a, layer0[t], layer1[t], r)
                  ELSE @]
  /\ UNCHANGED <<store, counters, op, args, layer0, layer1, layer3, first>>
  /\ UNCHANGED conc

\* layer3 = self.layer3_contraindication_detection(patient_id, drug, dose) and
\* the return when it did not pass; when it passed, self.approved_count += 1
\* and the approved verdict
AnalyzeLayer3(t) ==
  /\ pc[t] = "layer3"
  /\ LET a == args[t]
         r == layer3_contraindication_detection(patients_df, a.patient_id, a.drug, a.dose)
         passed == ~IsRaise(r) /\ r.passed
     IN
     /\ evaluated' = [evaluated EXCEPT ![t] = Append(@, 3)]
     /\ layer3' = [layer3 EXCEPT ![t] = IF IsRaise(r) THEN @ ELSE r]
     /\ approved_count' = IF passed THEN approved_count + 1 ELSE approved_count
     /\ pc' = [pc EXCEPT ![t] = "done"]
     /\ ret' = [ret EXCEPT ![t] =
                  IF IsRaise(r) THEN r
                  ELSE IF ~r.passed
                  THEN ReturnLayer3Failed(a, layer0[t], layer1[t], layer2[t], r)
                  ELSE ReturnApproved(a, layer0[t], layer1[t], layer2[t], r)]
  /\ UNCHANGED <<store, analysis_count, op, args, layer0, layer1, layer2, first>>
  /\ UNCHANGED conc

(***************************************************************************)
(* The layer methods called on their own.                                  *)
(***************************************************************************)
\* a direct call of one method: it returns v at once
Direct(t, name, a, v) ==
  /\ pc[t] = "idle"
  /\ pc' = [pc EXCEPT ![t] = "done"]
  /\ op' = [op EXCEPT ![t] = name]
  /\ args' = [args EXCEPT ![t] = a]
  /\ ret' = [ret EXCEPT ![t] = v]
  /\ UNCHANGED <<store, counters, locals, evaluated, first>>
  /\ UNCHANGED conc

CallLayer0(t) ==
  \E id \in PrescriberIds :
    Direct(t, "layer0_doctor_authorization", [prescriber_id |-> id],
           layer0_doctor_authorization(prescribers_df, id))

CallLayer1(t) ==
  \E id \in PatientIds :
    Direct(t, "layer1_patient_validation", [patient_id |-> id],
           layer1_patient_validation(patients_df, id))

CallLayer2(t) ==
  \E d \in Drugs, n \in Doses :
    Direct(t, "layer2_drug_safety", [drug |-> d, dose |-> n], layer2_drug_safety(d, n))

CallLayer3(t) ==
  \E id \in PatientIds, d \in Drugs, n \in Doses :
    Direct(t, "layer3_contraindication_detection",
           [patient_id |-> id, drug |-> d, dose |-> n],
           layer3_contraindication_detection(patients_df, id, d, n))

\* the caller takes the returned value; the thread is free again
Return(t) ==
  /\ pc[t] = "done"
  /\ pc' = [pc EXCEPT ![t] = "idle"]
  /\ op' = [op EXCEPT ![t] = "none"]
  /\ args' = [args EXCEPT ![t] = NoArgs]
  /\ layer0' = [layer0 EXCEPT ![t] = Unset]
  /\ layer1' = [layer1 EXCEPT ![t] = Unset]
  /\ layer2' = [layer2 EXCEPT ![t] = Unset]
  /\ layer3' = [layer3 EXCEPT ![t] = Unset]
  /\ evaluated' = [evaluated EXCEPT ![t] = <<>>]
  /\ ret' = [ret EXCEPT ![t] = Unset]
  /\ first' = [first EXCEPT ![t] = Unset]
  /\ UNCHANGED <<store, counters>>
  /\ UNCHANGED conc

(***************************************************************************)
(* Utility methods: get_patient, get_prescriber, get_statistics.           *)
(***************************************************************************)
\* Python's None as the value a lookup returns
Absent == [found |-> FALSE]

\* patient_data.to_dict(): the cells of the row under the columns of the sheet
ToDict(df, row) == [found |-> TRUE, record |-> [c \in df.cols |-> row[c]]]

\* a bare except: around the whole body: a missing key column gives None
get_patient(df, patient_id) ==
  IF ~df.loaded THEN Absent
  ELSE IF "patient_id" \notin df.cols THEN Absent
  ELSE LET patient == Select(df, "patient_id", patient_id) IN
       IF patient = <<>> THEN Absent ELSE ToDict(df, patient[1])

\* mutant: get_prescriber that returns the first row when no row matches
get_prescriber_first(df, prescriber_id) ==
  IF ~df.loaded THEN Absent
  ELSE IF "doctor_id" \notin df.cols THEN Absent
  ELSE LET prescriber == Select(df, "doctor_id", prescriber_id) IN
       IF prescriber = <<>> THEN ToDict(df, df.rows[1]) ELSE ToDict(df, prescriber[1])

get_prescriber(df, prescriber_id) ==
  IF ~df.loaded THEN Absent
  ELSE IF "doctor_id" \notin df.cols THEN Absent
  ELSE LET prescriber == Select(df, "doctor_id", prescriber_id) IN
       IF prescriber = <<>> THEN Absent ELSE ToDict(df, prescriber[1])

DigitChars == <<"0", "1", "2", "3", "4", "5", "6", "7", "8", "9">>

RECURSIVE Digits(_)
\* the decimal digits of a natural number
Digits(n) ==
  IF n < 10 THEN <<DigitChars[n + 1]>>
  ELSE Digits(n \div 10) \o <<DigitChars[(n % 10) + 1]>>

\* round(1000 * a / n), a half rounded to even, as format(x, '.1f') does
Tenths(a, n) ==
  LET q == (1000 * a) \div n
      r == (1000 * a) % n
  IN IF 2 * r > n THEN q + 1
     ELSE IF 2 * r = n THEN q + (q % 2)
     ELSE q

\* f"{(approved / max(analyses, 1) * 100):.1f}%"
ApprovalRate(approved, analyses) ==
  LET n == IF analyses > 1 THEN analyses ELSE 1
      tenths == Tenths(approved, n)
  IN Digits(tenths \div 10) \o <<".">> \o Digits(tenths % 10) \o <<"%">>

get_statistics(pdf, qdf, analyses, approved) ==
  [total_prescribers |-> IF pdf.loaded THEN Len(pdf.rows) ELSE 0,
   total_patients |-> IF qdf.loaded THEN Len(qdf.rows) ELSE 0,
   total_analyses |-> analyses,
   approved_count |-> approved,
   denied_count |-> analyses - approved,
   approval_rate |-> ApprovalRate(approved, analyses)]

CallGetPatient(t) ==
  \E id \in PatientIds :
    Direct(t, "get_patient", [patient_id |-> id], get_patient(patients_df, id))

CallGetPrescriber(t) ==
  \E id \in PrescriberIds :
    Direct(t, "get_prescriber", [prescriber_id |-> id], get_prescriber(prescribers_df, id))

CallGetStatistics(t) ==
  Direct(t, "get_statistics", NoArgs,
         get_statistics(prescribers_df, patients_df, analysis_count, approved_count))

(***************************************************************************)
(* The API endpoints GET /patients/{patient_id} and                        *)
(* GET /prescribers/{prescriber_id} (app.py).                              *)
(***************************************************************************)
\* raise HTTPException(status_code=..., detail=...)
HTTPException(status_code, detail) ==
  [exc |-> "HTTPException", status_code |-> status_code, detail |-> detail]

IsHTTPException(v) == "exc" \in DOMAIN v

\* str(e) of an HTTPException: it is built from the exception, whatever text
\* the framework makes of it
StrOfException(e) == [str |-> e]

\* the body of the endpoint: the try block, in which the 404 is raised, and
\* the except Exception clause around it, which catches every exception of
\* the try block, the HTTPException too, and raises a 400 from it
endpoint(found, detail) ==
  LET tried == IF found = Absent THEN HTTPException(404, detail) ELSE found IN
  IF IsHTTPException(tried)
  THEN HTTPException(400, StrOfException(tried))
  ELSE tried

\* @app.exception_handler(HTTPException): the answer made of the exception
http_exception_handler(exc) == [error |-> exc.detail, status_code |-> exc.status_code]

\* what the caller gets: the returned record, or the answer of the handler
Answer(v) == IF IsHTTPException(v) THEN http_exception_handler(v) ELSE v

api_get_patient(df, patient_id) ==
  Answer(endpoint(get_patient(df, patient_id), "Patient not found"))

api_get_prescriber(df, prescriber_id) ==
  Answer(endpoint(get_prescriber(df, prescriber_id), "Prescriber not found"))

CallApiGetPatient(t) ==
  \E id \in PatientIds :
    Direct(t, "GET /patients/{patient_id}", [patient_id |-> id],
           api_get_patient(patients_df, id))

CallApiGetPrescriber(t) ==
  \E id \in PrescriberIds :
    Direct(t, "GET /prescribers/{prescriber_id}", [prescriber_id |-> id],
           api_get_prescriber(prescribers_df, id))

(***************************************************************************)
(* The dashboard's fallback evaluation (streamlit_app.py), used when the   *)
(* engine could not be imported.                                           *)
(***************************************************************************)
s_Unknown == <<"U", "n", "k", "n", "o", "w", "n">>

s_disease == <<"d", "i", "s", "e", "a", "s", "e">>

\* get_selected_prescriber_row / get_selected_patient_row: the row of the id,
\* or None
SelectedRow(df, col, id) ==
  LET rows == Select(df, col, id) IN
  IF rows = <<>> THEN Absent ELSE [found |-> TRUE, record |-> rows[1]]

\* limits.get(drug.lower(), None): the name is lower-cased, not trimmed (the
\* table of the dashboard is a copy of safe_dose_limits)
get_safe_dose_limit(drug) ==
  IF HasLimit(Lower(drug))
  THEN [found |-> TRUE, limit |-> LimitOf(Lower(drug))]
  ELSE Absent

\* the status under the column whose name contains the word, "" when the
\* sheet has no such column
OrganStatus(df, row, col) ==
  IF col \in df.cols THEN Lower(Str(row[col])) ELSE s_empty

\* check_contraindications: safe when no rule of the dashboard matches, with
\* the texts of the rules that match
check_contraindications(selected_patient, drug, df) ==
  LET liver_status == OrganStatus(df, selected_patient, "liver_status")
      kidney_status == OrganStatus(df, selected_patient, "kidney_status")
      drug_lower == Strip(Lower(drug))
      opioid_liver ==
        /\ InList(drug_lower, opioids)
        /\ liver_status # s_empty
        /\ Contains(liver_status, s_severe) \/ Contains(liver_status, s_impaired)
      opioid_kidney ==
        /\ InList(drug_lower, opioids)
        /\ kidney_status # s_empty
        /\ Contains(kidney_status, s_severe)
      nsaid ==
        /\ InList(drug_lower, nsaids)
        /\ kidney_status # s_empty
        /\ Contains(kidney_status, s_impaired) \/ Contains(kidney_status, s_disease)
      metformin ==
        /\ drug_lower = s_metformin
        /\ kidney_status # s_empty
        /\ Contains(kidney_status, s_impaired) \/ Contains(kidney_status, s_severe)
      contraindications ==
        (IF opioid_liver THEN <<"contraindicated with liver disease">> ELSE <<>>)
          \o (IF opioid_kidney THEN <<"contraindicated with severe kidney disease">>
              ELSE <<>>)
          \o (IF nsaid THEN <<"NSAIDs contraindicated with kidney disease">> ELSE <<>>)
          \o (IF metformin THEN <<"Metformin contraindicated with kidney impairment">>
              ELSE <<>>)
  IN [safe |-> contraindications = <<>>,
      message |-> IF contraindications = <<>>
                  THEN <<"No contraindications detected">>
                  ELSE contraindications]

\* the result dict the fallback branch builds: every check is made, none
\* returns early, and a later check overwrites the score of an earlier one
fallback_analysis(pdf, qdf, a) ==
  LET selected_prescriber == SelectedRow(pdf, "doctor_id", a.prescriber_id)
      selected_patient == SelectedRow(qdf, "patient_id", a.patient_id)
      fail0 == /\ selected_prescriber # Absent
               /\ Get(pdf, selected_prescriber.record, "credentialing_status", s_Unknown)
                    # s_Active
      fail1 == selected_patient = Absent
      safe_limit == get_safe_dose_limit(a.drug)
      \* if safe_limit and dose > safe_limit
      fail2 == safe_limit # Absent /\ safe_limit.limit # 0 /\ a.dose > safe_limit.limit
      checked == check_contraindications(selected_patient.record, a.drug, qdf)
      fail3 == /\ ~(fail0 \/ fail1 \/ fail2)
               /\ selected_patient # Absent
               /\ ~checked.safe
  IN
  [approved |-> ~(fail0 \/ fail1 \/ fail2 \/ fail3),
   prescriber_id |-> a.prescriber_id, patient_id |-> a.patient_id,
   drug |-> a.drug, dose |-> a.dose,
   layer0 |-> [passed |-> ~fail0,
               message |-> IF fail0 THEN "Prescriber status: {}"
                           ELSE "Prescriber authorized"],
   layer1 |-> [passed |-> ~fail1,
               message |-> IF fail1 THEN "Patient not found" ELSE "Patient found"],
   layer2 |-> [passed |-> ~fail2,
               message |-> IF fail2 THEN "Dose {}mg exceeds safe limit of {}mg"
                           ELSE "Drug valid"],
   layer3 |-> [passed |-> ~fail3,
               message |-> IF fail3 THEN checked.message
                           ELSE <<"No contraindications">>],
   safety_score |-> IF fail3 THEN 25
                    ELSE IF fail2 THEN 25
                    ELSE IF fail1 THEN 0
                    ELSE IF fail0 THEN 0
                    ELSE 100,
   \* the reason is never rewritten
   reason |-> "APPROVED - All checks passed"]

\* what the form of the dashboard can send: the ids of the two sheets, the
\* drug as typed with surrounding whitespace removed
DashboardRequests ==
  [prescriber_id : {id_DOC001, id_DOC002, id_DOC003, id_DOC004},
   patient_id : PatientIds \ {id_P999},
   drug : {Strip(d) : d \in Drugs \ {NoneValue}},
   dose : Doses]

\* the form is shown when both sheets are loaded; its labels need the id and
\* name columns
DashboardShown ==
  /\ prescribers_df.loaded /\ {"doctor_id", "name"} \subseteq prescribers_df.cols
  /\ patients_df.loaded /\ {"patient_id", "name"} \subseteq patients_df.cols

\* the Analyze button of the dashboard without the engine
CallFallback(t) ==
  /\ DashboardShown
  /\ \E a \in DashboardRequests :
       Direct(t, "fallback", a, fallback_analysis(prescribers_df, patients_df, a))

(***************************************************************************)
(* The sequential specification: one caller, one call at a time.           *)
(***************************************************************************)
Next ==
  \/ initialize
  \/ \E t \in SeqThreads : AnalyzeCall(t)
  \/ \E t \in SeqThreads : AnalyzeAgain(t)
  \/ \E t \in SeqThreads : AnalyzeLayer0(t)
  \/ \E t \in SeqThreads : AnalyzeLayer1(t)
  \/ \E t \in SeqThreads : AnalyzeLayer2(t)
  \/ \E t \in SeqThreads : AnalyzeLayer3(t)
  \/ \E t \in SeqThreads : CallLayer0(t)
  \/ \E t \in SeqThreads : CallLayer1(t)
  \/ \E t \in SeqThreads : CallLayer2(t)
  \/ \E t \in SeqThreads : CallLayer3(t)
  \/ \E t \in SeqThreads : CallGetPatient(t)
  \/ \E t \in SeqThreads : CallGetPrescriber(t)
  \/ \E t \in SeqThreads : CallGetStatistics(t)
  \/ \E t \in SeqThreads : CallApiGetPatient(t)
  \/ \E t \in SeqThreads : CallApiGetPrescriber(t)
  \/ \E t \in SeqThreads : CallFallback(t)
  \/ \E t \in SeqThreads : Return(t)

Spec == Init /\ [][Next]_vars

(***************************************************************************)
(* The concurrent specification: several callers share one firewall        *)
(* object, and initialize() may run a second time while calls are in       *)
(* flight.  The code takes no lock, so every statement that reads or       *)
(* writes an attribute of the object is a step of its own: the += on a     *)
(* counter is a load and a store, initialize() assigns the two tables one  *)
(* after the other, and each layer reads self.prescribers_df or            *)
(* self.patients_df when it is evaluated.                                  *)
(***************************************************************************)
MaxReloads == 1

\* the sheets as first loaded
LoadedFirst == <<Table(PrescriberColumns, PrescriberRows), Table(PatientColumns, PatientRows)>>

\* the sheets as they are found by a second initialize(): prescriber DOC004 and
\* patient P002 have been withdrawn
ReloadedPrescribers ==
  Table(PrescriberColumns, SelectSeq(PrescriberRows, LAMBDA r : r.doctor_id # id_DOC004))

ReloadedPatients ==
  Table(PatientColumns, SelectSeq(PatientRows, LAMBDA r : r.patient_id # id_P002))

\* the requests of the concurrent callers: one that is approved, one that
\* layer 3 denies (liver status severe)
ConcRequests ==
  { [prescriber_id |-> id_DOC001, patient_id |-> id_P001, drug |-> s_aspirin, dose |-> 30],
    [prescriber_id |-> id_DOC001, patient_id |-> id_P002, drug |-> s_oxycodone, dose |-> 30] }

ConcInit ==
  /\ prescribers_df = LoadedFirst[1]
  /\ patients_df = LoadedFirst[2]
  /\ analysis_count = 0
  /\ approved_count = 0
  /\ pc = [t \in Threads |-> "idle"]
  /\ op = [t \in Threads |-> "none"]
  /\ args = [t \in Threads |-> NoArgs]
  /\ layer0 = [t \in Threads |-> Unset]
  /\ layer1 = [t \in Threads |-> Unset]
  /\ layer2 = [t \in Threads |-> Unset]
  /\ layer3 = [t \in Threads |-> Unset]
  /\ evaluated = [t \in Threads |-> <<>>]
  /\ ret = [t \in Threads |-> Unset]
  /\ first = [t \in Threads |-> Unset]
  /\ tmp = [t \in Threads |-> 0]
  /\ seen = [t \in Threads |-> NothingSeen]
  /\ loader = "idle"
  /\ published = <<LoadedFirst>>
  /\ tally = NoCalls

\* a caller calls analyze_prescription
ConcCall(t) ==
  /\ pc[t] = "idle"
  /\ tally.started < MaxAnalyses
  /\ \E a \in ConcRequests : args' = [args EXCEPT ![t] = a]
  /\ pc' = [pc EXCEPT ![t] = "load_analysis_count"]
  /\ op' = [op EXCEPT ![t] = "analyze_prescription"]
  /\ tally' = [tally EXCEPT !.started = @ + 1]
  /\ UNCHANGED <<store, counters, locals, evaluated, ret, first, tmp, seen, loader,
                 published>>

\* self.analysis_count += 1: the attribute is loaded ...
LoadAnalysisCount(t) ==
  /\ pc[t] = "load_analysis_count"
  /\ tmp' = [tmp EXCEPT ![t] = analysis_count]
  /\ pc' = [pc EXCEPT ![t] = "store_analysis_count"]
  /\ UNCHANGED <<store, counters, op, args, locals, evaluated, ret, first, seen, loader,
                 published, tally>>

\* ... and the sum is stored
StoreAnalysisCount(t) ==
  /\ pc[t] = "store_analysis_count"
  /\ analysis_count' = tmp[t] + 1
  /\ pc' = [pc EXCEPT ![t] = "layer0"]
  /\ UNCHANGED <<store, approved_count, op, args, locals, evaluated, ret, first, tmp, seen,
                 loader, published, tally>>

\* layer 0 reads self.prescribers_df as it is now
ConcLayer0(t) ==
  /\ pc[t] = "layer0"
  /\ LET a == args[t]
         r == layer0_doctor_authorization(prescribers_df, a.prescriber_id)
     IN
     /\ layer0' = [layer0 EXCEPT ![t] = r]
     /\ pc' = [pc EXCEPT ![t] = IF r.passed THEN "layer1" ELSE "done"]
     /\ ret' = [ret EXCEPT ![t] = IF r.passed THEN @ ELSE ReturnLayer0Failed(a, r)]
  /\ evaluated' = [evaluated EXCEPT ![t] = Append(@, 0)]
  /\ seen' = [seen EXCEPT ![t].prescribers0 = prescribers_df]
  /\ UNCHANGED <<store, counters, op, args, layer1, layer2, layer3, first, tmp, loader,
                 published, tally>>

\* layer 1 reads self.patients_df as it is now
ConcLayer1(t) ==
  /\ pc[t] = "layer1"
  /\ LET a == args[t]
         r == layer1_patient_validation(patients_df, a.patient_id)
     IN
     /\ layer1' = [layer1 EXCEPT ![t] = r]
     /\ pc' = [pc EXCEPT ![t] = IF r.passed THEN "layer2" ELSE "done"]
     /\ ret' = [ret EXCEPT ![t] = IF r.passed THEN @ ELSE ReturnLayer1Failed(a, layer0[t], r)]
  /\ evaluated' = [evaluated EXCEPT ![t] = Append(@, 1)]
  /\ seen' = [seen EXCEPT ![t].patients1 = patients_df]
  /\ UNCHANGED <<store, counters, op, args, layer0, layer2, layer3, first, tmp, loader,
                 published, tally>>

\* layer 2 reads no attribute of the object
ConcLayer2(t) ==
  /\ pc[t] = "layer2"
  /\ LET a == args[t]
         r == layer2_drug_safety(a.drug, a.dose)
     IN
     /\ layer2' = [layer2 EXCEPT ![t] = r]
     /\ pc' = [pc EXCEPT ![t] = IF r.passed THEN "layer3" ELSE "done"]
     /\ ret' = [ret EXCEPT ![t] =
                  IF r.passed THEN @ ELSE ReturnLayer2Failed(a, layer0[t], layer1[t], r)]
  /\ evaluated' = [evaluated EXCEPT ![t] = Append(@, 2)]
  /\ UNCHANGED <<store, counters, op, args, layer0, layer1, layer3, first, tmp, seen,
                 loader, published, tally>>

\* layer 3 reads self.patients_df again, as it is now
ConcLayer3(t) ==
  /\ pc[t] = "layer3"
  /\ LET a == args[t]
         r == layer3_contraindication_detection(patients_df, a.patient_id, a.drug, a.dose)
     IN
     /\ layer3' = [layer3 EXCEPT ![t] = r]
     /\ pc' = [pc EXCEPT ![t] = IF r.passed THEN "load_approved_count" ELSE "done"]
     /\ ret' = [ret EXCEPT ![t] =
                  IF r.passed THEN @
                  ELSE ReturnLayer3Failed(a, layer0[t], layer1[t], layer2[t], r)]
  /\ evaluated' = [evaluated EXCEPT ![t] = Append(@, 3)]
  /\ seen' = [seen EXCEPT ![t].patients3 = patients_df]
  /\ UNCHANGED <<store, counters, op, args, layer0, layer1, layer2, first, tmp, loader,
                 published, tally>>

\* self.approved_count += 1: the attribute is loaded ...
LoadApprovedCount(t) ==
  /\ pc[t] = "load_approved_count"
  /\ tmp' = [tmp EXCEPT ![t] = approved_count]
  /\ pc' = [pc EXCEPT ![t] = "store_approved_count"]
  /\ UNCHANGED <<store, counters, op, args, locals, evaluated, ret, first, seen, loader,
                 published, tally>>

\* ... the sum is stored and the approved verdict is returned
StoreApprovedCount(t) ==
  /\ pc[t] = "store_approved_count"
  /\ approved_count' = tmp[t] + 1
  /\ pc' = [pc EXCEPT ![t] = "done"]
  /\ ret' = [ret EXCEPT ![t] =
               ReturnApproved(args[t], layer0[t], layer1[t], layer2[t], layer3[t])]
  /\ UNCHANGED <<store, analysis_count, op, args, locals, evaluated, first, tmp, seen,
                 loader, published, tally>>

\* the caller takes the verdict
ConcReturn(t) ==
  /\ pc[t] = "done"
  /\ tally' = [tally EXCEPT !.returned = @ + 1,
                            !.approved = IF ret[t].approved THEN @ + 1 ELSE @]
  /\ pc' = [pc EXCEPT ![t] = "idle"]
  /\ op' = [op EXCEPT ![t] = "none"]
  /\ args' = [args EXCEPT ![t] = NoArgs]
  /\ layer0' = [layer0 EXCEPT ![t] = Unset]
  /\ layer1' = [layer1 EXCEPT ![t] = Unset]
  /\ layer2' = [layer2 EXCEPT ![t] = Unset]
  /\ layer3' = [layer3 EXCEPT ![t] = Unset]
  /\ evaluated' = [evaluated EXCEPT ![t] = <<>>]
  /\ ret' = [ret EXCEPT ![t] = Unset]
  /\ seen' = [seen EXCEPT ![t] = NothingSeen]
  /\ tmp' = [tmp EXCEPT ![t] = 0]
  /\ UNCHANGED <<store, counters, first, loader, published>>

\* initialize() is called again
ReloadCall ==
  /\ loader \in {"idle", "returned"}
  /\ Len(published) <= MaxReloads
  /\ loader' = "read_prescribers"
  /\ UNCHANGED <<store, counters, pc, op, args, locals, evaluated, ret, first, tmp, seen,
                 published, tally>>

\* self.prescribers_df = pd.read_excel(...), or the read raises
ReloadPrescribers ==
  /\ loader = "read_prescribers"
  /\ \/ /\ prescribers_df' = ReloadedPrescribers
        /\ loader' = "read_patients"
     \/ /\ prescribers_df' = prescribers_df
        /\ loader' = "except_prescribers"
  /\ UNCHANGED <<patients_df, counters, pc, op, args, locals, evaluated, ret, first, tmp,
                 seen, published, tally>>

\* self.patients_df = pd.read_excel(...), or the read raises
ReloadPatients ==
  /\ loader = "read_patients"
  /\ \/ /\ patients_df' = ReloadedPatients
        /\ loader' = "returned"
        /\ published' = Append(published, <<prescribers_df, ReloadedPatients>>)
     \/ /\ patients_df' = patients_df
        /\ loader' = "except_prescribers"
        /\ published' = published
  /\ UNCHANGED <<prescribers_df, counters, pc, op, args, locals, evaluated, ret, first, tmp,
                 seen, tally>>

\* except: self.prescribers_df = None
ReloadExceptPrescribers ==
  /\ loader = "except_prescribers"
  /\ prescribers_df' = NoTable
  /\ loader' = "except_patients"
  /\ UNCHANGED <<patients_df, counters, pc, op, args, locals, evaluated, ret, first, tmp,
                 seen, published, tally>>

\* except: self.patients_df = None
ReloadExceptPatients ==
  /\ loader = "except_patients"
  /\ patients_df' = NoTable
  /\ loader' = "returned"
  /\ published' = Append(published, <<NoTable, NoTable>>)
  /\ UNCHANGED <<prescribers_df, counters, pc, op, args, locals, evaluated, ret, first, tmp,
                 seen, tally>>

ConcNext ==
  \/ \E t \in Threads : ConcCall(t)
  \/ \E t \in Threads : LoadAnalysisCount(t)
  \/ \E t \in Threads : StoreAnalysisCount(t)
  \/ \E t \in Threads : ConcLayer0(t)
  \/ \E t \in Threads : ConcLayer1(t)
  \/ \E t \in Threads : ConcLayer2(t)
  \/ \E t \in Threads : ConcLayer3(t)
  \/ \E t \in Threads : LoadApprovedCount(t)
  \/ \E t \in Threads : StoreApprovedCount(t)
  \/ \E t \in Threads : ConcReturn(t)
  \/ ReloadCall
  \/ ReloadPrescribers
  \/ ReloadPatients
  \/ ReloadExceptPrescribers
  \/ ReloadExceptPatients

ConcSpec == ConcInit /\ [][ConcNext]_vars

(***************************************************************************)
(* Properties.                                                             *)
(***************************************************************************)
LayerPcs == {"layer0", "layer1", "layer2", "layer3"}

\* thread t has returned from analyze_prescription
AnalyzeDone(t) == pc[t] = "done" /\ op[t] = "analyze_prescription"

\* thread t has received a verdict from analyze_prescription
HasVerdict(t) == AnalyzeDone(t) /\ IsVerdict(ret[t])

\* the result the verdict v holds for layer k
LayerOf(v, k) ==
  CASE k = 0 -> v.layer0 [] k = 1 -> v.layer1 [] k = 2 -> v.layer2 [] k = 3 -> v.layer3

\* the local variable of thread t that holds the result of layer k
LocalOf(t, k) ==
  CASE k = 0 -> layer0[t] [] k = 1 -> layer1[t] [] k = 2 -> layer2[t] [] k = 3 -> layer3[t]

\* the index of the first layer of v that did not pass, 4 when all passed
FirstFailing(v) ==
  IF \E k \in 0..3 : ~LayerOf(v, k).passed
  THEN CHOOSE k \in 0..3 : ~LayerOf(v, k).passed /\ \A j \in 0..(k - 1) : LayerOf(v, j).passed
  ELSE 4

IsLayerResult(r) ==
  /\ {"passed", "message"} \subseteq DOMAIN r
  /\ r.passed \in BOOLEAN

VerdictKeys ==
  {"approved", "prescriber_id", "patient_id", "drug", "dose", "layer0", "layer1",
   "layer2", "layer3", "safety_score", "reason"}

\* C1: whatever the request and the store (loaded or not), the value
\* analyze_prescription returns is a verdict with exactly one result for each of
\* layer0..layer3 and a safety_score among 0, 25, 50, 100.
C1_VerdictComplete ==
  \A t \in Threads :
    AnalyzeDone(t) =>
      /\ IsVerdict(ret[t])
      /\ DOMAIN ret[t] = VerdictKeys
      /\ \A k \in 0..3 : IsLayerResult(LayerOf(ret[t], k))
      /\ ret[t].safety_score \in {0, 25, 50, 100}

\* C1 witness: a verdict returned while the store is not loaded
C1_Witness ==
  \E t \in Threads :
    /\ HasVerdict(t)
    /\ ~prescribers_df.loaded /\ ~patients_df.loaded
    /\ ret[t].safety_score = 0

\* C2: in every verdict, approved holds exactly when safety_score = 100 and
\* exactly when all four layer results passed; a failing layer forces
\* approved = false.
C2_ApprovedIffAllPassed ==
  \A t \in Threads :
    HasVerdict(t) =>
      LET v == ret[t] IN
      /\ v.approved <=> (v.safety_score = 100)
      /\ v.approved <=> (\A k \in 0..3 : LayerOf(v, k).passed)

\* C2 witness: scenario A (DOC001, P001, oxycodone, 30) is approved with 100
C2_Witness ==
  \E t \in Threads :
    /\ HasVerdict(t)
    /\ args[t] = [prescriber_id |-> id_DOC001, patient_id |-> id_P001,
                  drug |-> s_oxycodone, dose |-> 30]
    /\ ret[t].approved
    /\ ret[t].safety_score = 100

\* the score the specification's table gives the first failing layer k
ScoreTable(k) ==
  CASE k = 0 -> 0 [] k = 1 -> 25 [] k = 2 -> 50 [] k = 3 -> 25 [] k = 4 -> 100

PcOfLayer(k) ==
  CASE k = 0 -> "layer0" [] k = 1 -> "layer1" [] k = 2 -> "layer2" [] k = 3 -> "layer3"

\* the layers 0..n-1 in order
FirstLayers(n) == [i \in 1..n |-> i - 1]

\* the text of the placeholder written after layer f failed
SkippedText(f) ==
  CASE f = 0 -> "Skipped - Layer 0 failed"
    [] f = 1 -> "Skipped - Layer 1 failed"
    [] f = 2 -> "Skipped - Layer 2 failed"

\* r is the placeholder of a layer skipped because layer f failed
IsPlaceholder(r, f) ==
  /\ DOMAIN r = {"passed", "message"}
  /\ r.passed = FALSE
  /\ r.message.fmt = SkippedText(f)

\* C4: within one call the layers are evaluated in the order 0, 1, 2, 3, layer
\* k+1 only after layer k passed; after the first failure no layer is evaluated
\* and every later layer of the verdict is a 'Skipped' placeholder with
\* passed = false, while the layers up to the failure hold what was evaluated.
C4_OrderAndSkip ==
  \A t \in Threads :
    /\ \A k \in 0..3 :
         (op[t] = "analyze_prescription" /\ pc[t] = PcOfLayer(k)) =>
           /\ evaluated[t] = FirstLayers(k)
           /\ \A j \in 0..(k - 1) : ~IsUnset(LocalOf(t, j)) /\ LocalOf(t, j).passed
    /\ HasVerdict(t) =>
         LET v == ret[t]
             f == FirstFailing(v)
             n == IF f = 4 THEN 4 ELSE f + 1
         IN
         /\ evaluated[t] = FirstLayers(n)
         /\ \A j \in 0..(n - 1) : LayerOf(v, j) = LocalOf(t, j)
         /\ \A j \in n..3 : IsPlaceholder(LayerOf(v, j), f) /\ IsUnset(LocalOf(t, j))

\* C4 witness: layer 1 failed, layers 2 and 3 are placeholders
C4_Witness ==
  \E t \in Threads :
    /\ HasVerdict(t)
    /\ evaluated[t] = <<0, 1>>
    /\ ret[t].layer0.passed /\ ~ret[t].layer1.passed
    /\ IsPlaceholder(ret[t].layer2, 1) /\ IsPlaceholder(ret[t].layer3, 1)

\* what holds of a call at every moment: while it is under way fewer than four
\* layers were evaluated; what it returns is a verdict (no exception leaves it)
\* reached after one to four layer evaluations
C5_Bounded ==
  \A t \in Threads :
    /\ (op[t] = "analyze_prescription" /\ pc[t] \in LayerPcs) => Len(evaluated[t]) < 4
    /\ AnalyzeDone(t) =>
         /\ IsVerdict(ret[t])
         /\ ~IsRaise(ret[t])
         /\ Len(evaluated[t]) \in 1..4

\* every step of a call under way evaluates exactly one more layer, and leaves
\* the call at a later layer or returned: the call has no loop and no wait (the
\* steps AnalyzeLayer0..3 have no guard but the control point)
C5_Progress ==
  \A t \in Threads :
    (pc[t] \in LayerPcs /\ <<pc[t], evaluated[t], ret[t]>>' # <<pc[t], evaluated[t], ret[t]>>) =>
      /\ Len(evaluated'[t]) = Len(evaluated[t]) + 1
      /\ pc'[t] \in LayerPcs \cup {"done"}
      /\ pc'[t] = "done" => ~IsRaise(ret'[t])
      /\ pc'[t] \in LayerPcs => pc'[t] # pc[t]

\* C5: every call of analyze_prescription terminates with a complete verdict
\* after at most four layer evaluations and raises no exception, whatever the
\* request and whether or not the reference data is loaded.
C5_Terminates == []C5_Bounded /\ [][C5_Progress]_vars

\* C5 witness: a call that evaluated all four layers and returned a denial
C5_Witness ==
  \E t \in Threads :
    /\ HasVerdict(t)
    /\ Len(evaluated[t]) = 4
    /\ ~ret[t].approved

\* thread t has returned from a direct call of the method called name
DirectDone(t, name) == pc[t] = "done" /\ op[t] = name

\* the patient table is loaded and has a row whose patient_id is id
PatientKnown(df, id) ==
  /\ df.loaded
  /\ "patient_id" \in df.cols
  /\ \E i \in 1..Len(df.rows) : df.rows[i].patient_id = id

\* C6: when the patient table is not loaded, or holds no row for the patient
\* id, layer3_contraindication_detection returns passed = true for every drug
\* and dose.
C6_Layer3FailOpen ==
  \A t \in Threads :
    (/\ DirectDone(t, "layer3_contraindication_detection")
     /\ ~PatientKnown(patients_df, args[t].patient_id)) =>
      /\ IsLayerResult(ret[t])
      /\ ret[t].passed = TRUE

\* C6 witness: layer 3 called for an opioid while the patient table is not loaded
C6_Witness ==
  \E t \in Threads :
    /\ DirectDone(t, "layer3_contraindication_detection")
    /\ ~patients_df.loaded
    /\ args[t].drug = s_oxycodone
    /\ ret[t].passed

\* r is the result an error exc is converted into: passed as given, the
\* message holding the error text after the given prefix
IsConverted(r, passed, prefix, exc) ==
  /\ IsLayerResult(r)
  /\ r.passed = passed
  /\ r.message.fmt = prefix
  /\ r.message.e = exc

\* C7: an error raised while a layer is evaluated does not leave the method: for
\* layers 0, 1, 2 it becomes a result with passed = false whose message holds
\* the error text, for layer 3 a result with passed = true; so no verdict is
\* denied at layer 3 because of an error in layer 3.
C7_ErrorsConverted ==
  \A t \in Threads :
    /\ DirectDone(t, "layer0_doctor_authorization") =>
         LET r == layer0_try(prescribers_df, args[t].prescriber_id) IN
         IsRaise(r) => IsConverted(ret[t], FALSE, "Error in Layer 0: {}", r.exc)
    /\ DirectDone(t, "layer1_patient_validation") =>
         LET r == layer1_try(patients_df, args[t].patient_id) IN
         IsRaise(r) => IsConverted(ret[t], FALSE, "Error in Layer 1: {}", r.exc)
    /\ DirectDone(t, "layer2_drug_safety") =>
         LET r == layer2_try(args[t].drug, args[t].dose) IN
         IsRaise(r) => IsConverted(ret[t], FALSE, "Error in Layer 2: {}", r.exc)
    /\ DirectDone(t, "layer3_contraindication_detection") =>
         LET r == layer3_try(patients_df, args[t].patient_id, args[t].drug, args[t].dose) IN
         IsRaise(r) => IsConverted(ret[t], TRUE, "Warning in Layer 3: {}", r.exc)
    /\ (HasVerdict(t) /\ FirstFailing(ret[t]) = 3) =>
         ~IsRaise(layer3_try(patients_df, args[t].patient_id, args[t].drug, args[t].dose))

\* C7 witness: layer 3 met an error (drug.lower() on a value that is no string,
\* for a patient that is found) and returned passed = true
C7_Witness ==
  \E t \in Threads :
    /\ DirectDone(t, "layer3_contraindication_detection")
    /\ PatientKnown(patients_df, args[t].patient_id)
    /\ IsRaise(layer3_try(patients_df, args[t].patient_id, args[t].drug, args[t].dose))
    /\ ret[t].passed
    /\ ret[t].message.fmt = "Warning in Layer 3: {}"

\* the decision a verdict carries: approved, the four passed flags, the score
Decision(v) ==
  <<v.approved, v.layer0.passed, v.layer1.passed, v.layer2.passed, v.layer3.passed,
    v.safety_score>>

\* C8: a second call of analyze_prescription with the same four arguments on an
\* unchanged store gives the same approved flag, the same four passed flags and
\* the same score as the first, whatever the counters were at each call.
C8_Idempotent ==
  \A t \in Threads :
    (/\ HasVerdict(t)
     /\ ~IsUnset(first[t])
     /\ first[t].prescribers_df = prescribers_df
     /\ first[t].patients_df = patients_df) =>
      /\ first[t].verdict.prescriber_id = ret[t].prescriber_id
      /\ first[t].verdict.patient_id = ret[t].patient_id
      /\ first[t].verdict.drug = ret[t].drug
      /\ first[t].verdict.dose = ret[t].dose
      /\ Decision(first[t].verdict) = Decision(ret[t])

\* C8 witness: the same request approved twice, with both counters changed
\* between the two calls
C8_Witness ==
  \E t \in Threads :
    /\ HasVerdict(t)
    /\ ~IsUnset(first[t])
    /\ first[t].prescribers_df = prescribers_df
    /\ first[t].patients_df = patients_df
    /\ first[t].verdict.approved /\ ret[t].approved
    /\ first[t].analysis_count = 1 /\ analysis_count = 2
    /\ first[t].approved_count = 1 /\ approved_count = 2

\* C9: the reason of a verdict is the message of the first failing layer, and
\* the fixed approval text when all four layers passed; it is never the message
\* of a skipped placeholder or of a layer that passed.
C9_Reason ==
  \A t \in Threads :
    HasVerdict(t) =>
      LET v == ret[t]
          f == FirstFailing(v)
      IN
      /\ f = 4 => v.reason = Msg("APPROVED - All 4 layers passed", <<>>, <<>>)
      /\ f < 4 =>
           /\ v.reason = LayerOf(v, f).message
           /\ v.reason.fmt \notin {SkippedText(0), SkippedText(1), SkippedText(2)}
           /\ \A k \in 0..3 : LayerOf(v, k).passed => v.reason # LayerOf(v, k).message

\* C9 witness: layer 2 is the first to fail (an illegal drug) and its message
\* is the reason
C9_Witness ==
  \E t \in Threads :
    /\ HasVerdict(t)
    /\ FirstFailing(ret[t]) = 2
    /\ ret[t].reason = Msg("Drug '{}' is illegal/controlled substance", <<args[t].drug>>, <<>>)

\* the prescriber table has a row whose doctor_id is exactly id
PrescriberFound(df, id) ==
  "doctor_id" \in df.cols /\ \E i \in 1..Len(df.rows) : df.rows[i].doctor_id = id

\* the first row of the table whose doctor_id is id
PrescriberRow(df, id) ==
  df.rows[CHOOSE i \in 1..Len(df.rows) :
            /\ df.rows[i].doctor_id = id
            /\ \A j \in 1..(i - 1) : df.rows[j].doctor_id # id]

StatusActive(row) == row.credentialing_status = <<"A", "c", "t", "i", "v", "e">>

DeaPrefixed(row) ==
  /\ row.dea_number # NaN
  /\ Len(row.dea_number) >= 1
  /\ row.dea_number[1] = "A"

\* what C10 says of the result r of layer 0 for the table df and the id
Layer0AsClaimed(df, id, r) ==
  /\ IsLayerResult(r)
  /\ r.passed <=> /\ df.loaded
                  /\ PrescriberFound(df, id)
                  /\ StatusActive(PrescriberRow(df, id))
                  /\ DeaPrefixed(PrescriberRow(df, id))
  /\ ~df.loaded => r.message = Msg("Database not loaded", <<>>, <<>>)
  /\ (df.loaded /\ PrescriberColumns \subseteq df.cols) =>
       IF ~PrescriberFound(df, id)
       THEN r.message = Msg("Prescriber {} not found in database", <<id>>, <<>>)
       ELSE IF ~StatusActive(PrescriberRow(df, id))
       THEN r.message =
              Msg("Prescriber status: {}", <<PrescriberRow(df, id).credentialing_status>>, <<>>)
       ELSE ~DeaPrefixed(PrescriberRow(df, id)) =>
              r.message = Msg("Invalid DEA number format", <<>>, <<>>)

ProfileColumns == {"name", "age"}

\* the result of layer 1 that the state holds for thread t, if any
Layer1Seen(t) ==
  \/ DirectDone(t, "layer1_patient_validation")
  \/ op[t] = "analyze_prescription" /\ ~IsUnset(layer1[t])

Layer1Of(t) ==
  IF op[t] = "analyze_prescription" THEN layer1[t] ELSE ret[t]

\* C11 as stated: layer 1 passes if and only if the patient table is loaded
\* and contains a row whose id equals the given id; the patient's clinical
\* content never makes it fail.
C11_Layer1Original ==
  \A t \in Threads :
    Layer1Seen(t) =>
      (Layer1Of(t).passed <=> PatientKnown(patients_df, args[t].patient_id))

\* C11 (amended): layer 1 passes if and only if the patient table is loaded,
\* contains a row whose id equals the given id (exact string equality) and
\* carries the name and age columns; the values of the conditions,
\* medications, liver status, kidney status and age of the patient, and the
\* absence of those four optional columns, never make it fail.
C11_Layer1 ==
  \A t \in Threads :
    Layer1Seen(t) =>
      /\ IsLayerResult(Layer1Of(t))
      /\ Layer1Of(t).passed <=>
           /\ PatientKnown(patients_df, args[t].patient_id)
           /\ ProfileColumns \subseteq patients_df.cols

\* C11 witness: layer 1 passes for a patient whose liver and kidney status
\* are severe
C11_Witness ==
  \E t \in Threads :
    /\ DirectDone(t, "layer1_patient_validation")
    /\ args[t].patient_id = id_P002
    /\ ret[t].passed
    /\ ret[t].details.liver_status = s_severe
    /\ ret[t].details.kidney_status = s_severe

(***************************************************************************)
(* C12: illegal substances.                                                *)
(***************************************************************************)
\* a drug name as the rules compare it: lower case, surrounding whitespace
\* removed
NormalizedName(drug) == Strip(Lower(drug))

IllegalNames == {s_heroin, s_fentanyl_street, s_meth, s_cocaine, s_pcp}

IsIllegalName(drug) == drug # NoneValue /\ NormalizedName(drug) \in IllegalNames

IllegalMessage(drug) == Msg("Drug '{}' is illegal/controlled substance", <<drug>>, <<>>)

\* C12: layer 2 fails for heroin, fentanyl_street, meth, cocaine and pcp
\* (compared as normalized names) at every dose, with the illegal-substance
\* message and not a dose message; in analyze_prescription such a drug gives
\* safety_score 50 whenever layers 0 and 1 passed.
C12_Illegal ==
  \A t \in Threads :
    /\ (DirectDone(t, "layer2_drug_safety") /\ IsIllegalName(args[t].drug)) =>
         /\ ~ret[t].passed
         /\ ret[t].message = IllegalMessage(args[t].drug)
    /\ (/\ HasVerdict(t)
        /\ IsIllegalName(args[t].drug)
        /\ ret[t].layer0.passed /\ ret[t].layer1.passed) =>
         /\ ~ret[t].approved
         /\ ret[t].safety_score = 50
         /\ ret[t].layer2.message = IllegalMessage(args[t].drug)
         /\ ret[t].reason = IllegalMessage(args[t].drug)

\* C12 witness: scenario B with the name typed " HEROIN" at the lowest dose:
\* layers 0 and 1 passed and the verdict has score 50
C12_Witness ==
  \E t \in Threads :
    /\ HasVerdict(t)
    /\ args[t].drug = d_HEROIN /\ args[t].dose = 30
    /\ ret[t].layer0.passed /\ ret[t].layer1.passed
    /\ ~ret[t].layer2.passed
    /\ ret[t].safety_score = 50

(***************************************************************************)
(* C13: dose ceilings.                                                     *)
(***************************************************************************)
\* the ceilings in mg, as pairs <<normalized name, ceiling>>
DoseCeilings ==
  { <<s_oxycodone, 50>>, <<s_morphine, 100>>, <<s_hydrocodone, 40>>,
    <<s_codeine, 60>>, <<s_paracetamol, 1000>>, <<s_ibuprofen, 800>>,
    <<s_aspirin, 500>>, <<s_metformin, 2550>>, <<s_lisinopril, 40>>,
    <<s_atenolol, 100>>, <<s_vitamin_d, 4000>>, <<s_atorvastatin, 80>>,
    <<s_amlodipine, 10>>, <<s_albuterol, 200>>, <<s_insulin, 300>> }

HasCeiling(drug) == \E c \in DoseCeilings : c[1] = NormalizedName(drug)

ExceedsCeiling(drug, dose) ==
  \E c \in DoseCeilings : c[1] = NormalizedName(drug) /\ dose > c[2]

\* C13: for a drug that is not illegal, layer 2 fails if and only if the
\* normalized name has a ceiling and the dose is strictly greater than it; a
\* dose equal to the ceiling passes and a drug without ceiling passes at every
\* dose.
C13_DoseCeiling ==
  \A t \in Threads :
    (/\ DirectDone(t, "layer2_drug_safety")
     /\ args[t].drug # NoneValue
     /\ ~IsIllegalName(args[t].drug)) =>
      /\ ~ret[t].passed <=> ExceedsCeiling(args[t].drug, args[t].dose)
      /\ ~ret[t].passed =>
           /\ ret[t].message.fmt = "Dose {}mg exceeds safe limit of {}mg"
           /\ <<NormalizedName(args[t].drug), ret[t].details.max_safe_dose>> \in DoseCeilings
      /\ ~HasCeiling(args[t].drug) => ret[t].passed

\* C13 witness: oxycodone at 50 mg, its ceiling, passes layer 2
C13_Witness ==
  \E t \in Threads :
    /\ DirectDone(t, "layer2_drug_safety")
    /\ args[t].drug = s_oxycodone /\ args[t].dose = 50
    /\ <<s_oxycodone, 50>> \in DoseCeilings
    /\ ret[t].passed

\* oxycodone above its ceiling fails, a drug without ceiling passes at 75 mg
C13_Above ==
  \E t \in Threads :
    /\ DirectDone(t, "layer2_drug_safety")
    /\ \/ args[t].drug = s_oxycodone /\ args[t].dose = 75 /\ ~ret[t].passed
       \/ args[t].drug = d_zinc /\ args[t].dose = 75 /\ ret[t].passed

(***************************************************************************)
(* C14: the opioid rules of layer 3.                                       *)
(***************************************************************************)
\* the result of layer 3 that the state holds for thread t, if any
Layer3Seen(t) ==
  \/ DirectDone(t, "layer3_contraindication_detection")
  \/ op[t] = "analyze_prescription" /\ ~IsUnset(layer3[t])

Layer3Of(t) ==
  IF op[t] = "analyze_prescription" THEN layer3[t] ELSE ret[t]

\* the first row of the table whose patient_id is id
PatientRow(df, id) ==
  df.rows[CHOOSE i \in 1..Len(df.rows) :
            /\ df.rows[i].patient_id = id
            /\ \A j \in 1..(i - 1) : df.rows[j].patient_id # id]

\* a liver or kidney status of the record, normalized; "normal" when the
\* record leaves it unspecified
StatusOf(df, row, col) ==
  IF col \in df.cols /\ row[col] # NaN THEN Strip(Lower(row[col])) ELSE s_normal

LiverOf(df, id) == StatusOf(df, PatientRow(df, id), "liver_status")

KidneyOf(df, id) == StatusOf(df, PatientRow(df, id), "kidney_status")

OpioidNames == {s_oxycodone, s_morphine, s_hydrocodone, s_codeine}

IsOpioid(drug) == drug # NoneValue /\ NormalizedName(drug) \in OpioidNames

\* r is a failed layer-3 result with the given reason and severity
Blocked(r, reason, severity) ==
  /\ ~r.passed
  /\ r.details.reason = reason
  /\ r.details.severity = severity

\* C14: for a found patient and an opioid (oxycodone, morphine, hydrocodone,
\* codeine) layer 3 fails with opioids_liver_disease / CRITICAL when the liver
\* status is severe or impaired, and otherwise with opioids_kidney_disease /
\* CRITICAL when the kidney status is severe; the liver rule wins when both
\* hold, and kidney status impaired with a normal liver does not block.
C14_Opioids ==
  \A t \in Threads :
    (/\ Layer3Seen(t)
     /\ PatientKnown(patients_df, args[t].patient_id)
     /\ IsOpioid(args[t].drug)) =>
      LET liver == LiverOf(patients_df, args[t].patient_id)
          kidney == KidneyOf(patients_df, args[t].patient_id)
          r == Layer3Of(t)
      IN
      /\ liver \in {s_severe, s_impaired} =>
           Blocked(r, "opioids_liver_disease", "CRITICAL")
      /\ (liver \notin {s_severe, s_impaired} /\ kidney = s_severe) =>
           Blocked(r, "opioids_kidney_disease", "CRITICAL")
      /\ (liver = s_normal /\ kidney = s_impaired) => r.passed

\* C14 witness: an opioid for a patient whose liver and kidney status are both
\* severe is blocked by the liver rule
C14_Witness ==
  \E t \in Threads :
    /\ DirectDone(t, "layer3_contraindication_detection")
    /\ PatientKnown(patients_df, args[t].patient_id)
    /\ args[t].drug = s_oxycodone
    /\ LiverOf(patients_df, args[t].patient_id) = s_severe
    /\ KidneyOf(patients_df, args[t].patient_id) = s_severe
    /\ Blocked(ret[t], "opioids_liver_disease", "CRITICAL")

\* an opioid for a patient with impaired kidney and normal liver passes
C14_KidneyImpaired ==
  \E t \in Threads :
    /\ DirectDone(t, "layer3_contraindication_detection")
    /\ PatientKnown(patients_df, args[t].patient_id)
    /\ IsOpioid(args[t].drug)
    /\ "liver_status" \in patients_df.cols
    /\ LiverOf(patients_df, args[t].patient_id) = s_normal
    /\ KidneyOf(patients_df, args[t].patient_id) = s_impaired
    /\ ret[t].passed

(***************************************************************************)
(* C15: the NSAID rule of layer 3.                                         *)
(***************************************************************************)
\* the set of normalized tags of a delimited field of the record: split on
\* ';', each tag lower-cased and trimmed; empty for an absent or empty field
TagsOf(df, row, col) ==
  IF col \in df.cols /\ row[col] # NaN
  THEN LET parts == Split(row[col], s_semicolon) IN
       {Strip(Lower(parts[i])) : i \in 1..Len(parts)} \ {s_empty}
  ELSE {}

ConditionTags(df, id) == TagsOf(df, PatientRow(df, id), "conditions")

MedicationTags(df, id) == TagsOf(df, PatientRow(df, id), "medications")

\* a tag that marks kidney disease: kidney_disease, or a tag naming ckd
IsKidneyMarker(tag) == tag = s_kidney_disease \/ Contains(tag, s_ckd)

HasKidneyMarker(df, id) == \E tag \in ConditionTags(df, id) : IsKidneyMarker(tag)

NsaidNames == {s_aspirin, s_ibuprofen}

IsNsaid(drug) == drug # NoneValue /\ NormalizedName(drug) \in NsaidNames

\* C15: for a found patient and an NSAID (aspirin, ibuprofen), layer 3 fails
\* with nsaid_kidney_disease / HIGH if and only if one of the patient's
\* condition tags is a kidney-disease marker.
C15_NsaidKidney ==
  \A t \in Threads :
    (/\ Layer3Seen(t)
     /\ PatientKnown(patients_df, args[t].patient_id)
     /\ IsNsaid(args[t].drug)) =>
      (Blocked(Layer3Of(t), "nsaid_kidney_disease", "HIGH")
         <=> HasKidneyMarker(patients_df, args[t].patient_id))

\* the case in which C15 fails: ibuprofen passes layer 3 for a patient whose
\* conditions field is "diabetes; kidney_disease"
C15_Missed ==
  \E t \in Threads :
    /\ DirectDone(t, "layer3_contraindication_detection")
    /\ PatientKnown(patients_df, args[t].patient_id)
    /\ args[t].drug = s_ibuprofen
    /\ s_kidney_disease \in ConditionTags(patients_df, args[t].patient_id)
    /\ ret[t].passed

(***************************************************************************)
(* C16: aspirin for a patient on warfarin.                                 *)
(***************************************************************************)
IsAspirin(drug) == drug # NoneValue /\ NormalizedName(drug) = s_aspirin

OnWarfarin(df, id) == s_warfarin \in MedicationTags(df, id)

\* r is the failed layer-3 result of the aspirin-warfarin rule
BlockedInteraction(r) ==
  /\ Blocked(r, "drug_drug_interaction", "CRITICAL")
  /\ r.details.interaction = "aspirin_warfarin"

\* C16: for a found patient whose set of current medications contains
\* warfarin, aspirin fails layer 3 with drug_drug_interaction / aspirin_warfarin
\* / CRITICAL at every dose, and analyze_prescription, when it reaches layer 3,
\* returns score 25.
C16_AspirinWarfarin ==
  \A t \in Threads :
    /\ (/\ Layer3Seen(t)
        /\ PatientKnown(patients_df, args[t].patient_id)
        /\ IsAspirin(args[t].drug)
        /\ OnWarfarin(patients_df, args[t].patient_id)) =>
         BlockedInteraction(Layer3Of(t))
    /\ (/\ HasVerdict(t)
        /\ ~IsUnset(layer3[t])
        /\ PatientKnown(patients_df, args[t].patient_id)
        /\ IsAspirin(args[t].drug)
        /\ OnWarfarin(patients_df, args[t].patient_id)) =>
         ret[t].safety_score = 25

\* the case in which C16 fails: aspirin is approved with score 100 for a
\* patient whose medications field is "lisinopril; warfarin"
C16_Missed ==
  \E t \in Threads :
    /\ HasVerdict(t)
    /\ PatientKnown(patients_df, args[t].patient_id)
    /\ args[t].drug = s_aspirin
    /\ OnWarfarin(patients_df, args[t].patient_id)
    /\ ret[t].approved
    /\ ret[t].safety_score = 100

\* what the rule does when the tag is matched: aspirin for a patient whose
\* medications field is "warfarin" and who has no kidney condition is blocked
\* as drug_drug_interaction
C16_Matched ==
  \E t \in Threads :
    /\ DirectDone(t, "layer3_contraindication_detection")
    /\ PatientKnown(patients_df, args[t].patient_id)
    /\ args[t].drug = s_aspirin
    /\ OnWarfarin(patients_df, args[t].patient_id)
    /\ BlockedInteraction(ret[t])

(***************************************************************************)
(* C17: metformin and kidney status.                                       *)
(***************************************************************************)
IsMetformin(drug) == drug # NoneValue /\ NormalizedName(drug) = s_metformin

\* C17: for a found patient, metformin fails layer 3 with
\* metformin_kidney_disease / HIGH if and only if the kidney status of the
\* patient is impaired or severe; otherwise it passes.
C17_MetforminKidney ==
  \A t \in Threads :
    (/\ Layer3Seen(t)
     /\ PatientKnown(patients_df, args[t].patient_id)
     /\ IsMetformin(args[t].drug)) =>
      LET kidney == KidneyOf(patients_df, args[t].patient_id)
          r == Layer3Of(t)
      IN
      /\ Blocked(r, "metformin_kidney_disease", "HIGH") <=>
           kidney \in {s_impaired, s_severe}
      /\ kidney \notin {s_impaired, s_severe} => r.passed

\* C17 witness: metformin for a patient whose kidney status is impaired is
\* blocked
C17_Witness ==
  \E t \in Threads :
    /\ DirectDone(t, "layer3_contraindication_detection")
    /\ PatientKnown(patients_df, args[t].patient_id)
    /\ args[t].drug = s_metformin
    /\ KidneyOf(patients_df, args[t].patient_id) = s_impaired
    /\ Blocked(ret[t], "metformin_kidney_disease", "HIGH")

(***************************************************************************)
(* C18: rule order of layer 3.                                             *)
(***************************************************************************)
\* rule k of layer 3, in the order of the code, matches the patient and drug
RuleMatches(k, df, id, drug) ==
  CASE k = 1 -> IsOpioid(drug) /\ LiverOf(df, id) \in {s_severe, s_impaired}
    [] k = 2 -> IsOpioid(drug) /\ KidneyOf(df, id) = s_severe
    [] k = 3 -> IsNsaid(drug) /\ HasKidneyMarker(df, id)
    [] k = 4 -> IsAspirin(drug) /\ OnWarfarin(df, id)
    [] k = 5 -> IsMetformin(drug) /\ KidneyOf(df, id) \in {s_impaired, s_severe}

RuleReason(k) ==
  CASE k = 1 -> "opioids_liver_disease"
    [] k = 2 -> "opioids_kidney_disease"
    [] k = 3 -> "nsaid_kidney_disease"
    [] k = 4 -> "drug_drug_interaction"
    [] k = 5 -> "metformin_kidney_disease"

Rules == 1..5

NoRuleMatches(df, id, drug) == \A k \in Rules : ~RuleMatches(k, df, id, drug)

\* the first rule that matches
FirstRule(df, id, drug) ==
  CHOOSE k \in Rules :
    /\ RuleMatches(k, df, id, drug)
    /\ \A j \in 1..(k - 1) : ~RuleMatches(j, df, id, drug)

NoContraindications == Msg("No contraindications detected", <<>>, <<>>)

\* C18: layer 3 returns the result of the first rule that matches, in the
\* order opioid-liver, opioid-kidney, NSAID-kidney, aspirin-warfarin,
\* metformin-kidney, and passes with 'No contraindications detected' if and
\* only if the patient is found and no rule matches.
C18_RuleOrder ==
  \A t \in Threads :
    (Layer3Seen(t) /\ args[t].drug # NoneValue) =>
      LET df == patients_df
          id == args[t].patient_id
          drug == args[t].drug
          r == Layer3Of(t)
      IN
      /\ (PatientKnown(df, id) /\ ~NoRuleMatches(df, id, drug)) =>
           /\ ~r.passed
           /\ r.details.reason = RuleReason(FirstRule(df, id, drug))
      /\ (r.passed /\ r.message = NoContraindications) <=>
           (PatientKnown(df, id) /\ NoRuleMatches(df, id, drug))

\* the order where the code recognises both tags: aspirin for a patient with
\* conditions "CKD;diabetes" and medications "Warfarin" is reported as
\* nsaid_kidney_disease
C18_FirstMatch ==
  \E t \in Threads :
    /\ DirectDone(t, "layer3_contraindication_detection")
    /\ PatientKnown(patients_df, args[t].patient_id)
    /\ args[t].drug = s_aspirin
    /\ RuleMatches(3, patients_df, args[t].patient_id, args[t].drug)
    /\ RuleMatches(4, patients_df, args[t].patient_id, args[t].drug)
    /\ Blocked(ret[t], "nsaid_kidney_disease", "HIGH")

\* the case in which C18 fails: layer 3 passes with 'No contraindications
\* detected' although the NSAID rule and the aspirin-warfarin rule match
C18_PassedDespiteMatch ==
  \E t \in Threads :
    /\ DirectDone(t, "layer3_contraindication_detection")
    /\ PatientKnown(patients_df, args[t].patient_id)
    /\ args[t].drug = s_aspirin
    /\ RuleMatches(3, patients_df, args[t].patient_id, args[t].drug)
    /\ RuleMatches(4, patients_df, args[t].patient_id, args[t].drug)
    /\ ret[t].passed
    /\ ret[t].message = NoContraindications

(***************************************************************************)
(* C19: normalization of what is compared.                                 *)
(***************************************************************************)
RECURSIVE JoinFrom(_, _, _)
\* sep.join(parts[i:])
JoinFrom(parts, sep, i) ==
  IF i > Len(parts) THEN <<>>
  ELSE IF i = Len(parts) THEN parts[i]
  ELSE parts[i] \o sep \o JoinFrom(parts, sep, i + 1)

\* a delimited field with every tag lower-cased and trimmed
NormalizedField(s) ==
  IF s = NaN THEN NaN
  ELSE LET parts == Split(s, s_semicolon) IN
       JoinFrom([i \in 1..Len(parts) |-> Strip(Lower(parts[i]))], s_semicolon, 1)

NormalizedStatus(s) == IF s = NaN THEN NaN ELSE Strip(Lower(s))

\* the patient record written in normalized form: it differs from row only
\* in letter case and in surrounding whitespace
NormalizedPatient(row) ==
  [row EXCEPT !.conditions = NormalizedField(@),
              !.medications = NormalizedField(@),
              !.liver_status = NormalizedStatus(@),
              !.kidney_status = NormalizedStatus(@)]

NormalizedPatients(df) ==
  IF df.loaded
  THEN [df EXCEPT !.rows = [i \in 1..Len(df.rows) |-> NormalizedPatient(df.rows[i])]]
  ELSE df

\* the decision of a layer result: passed, and the reason tag of a block
Outcome(r) ==
  <<r.passed, IF "reason" \in DOMAIN r.details THEN r.details.reason ELSE "">>

\* C19: drug names, condition tags, medication tags and liver, kidney and
\* credentialing status are compared on normalized values: two inputs that
\* differ only in letter case or surrounding whitespace give the same layer
\* outcome; only the prescriber id and the patient id are compared exactly.
C19_Normalized ==
  \A t \in Threads :
    /\ (DirectDone(t, "layer2_drug_safety") /\ args[t].drug # NoneValue) =>
         ret[t].passed =
           layer2_drug_safety(NormalizedName(args[t].drug), args[t].dose).passed
    /\ (DirectDone(t, "layer3_contraindication_detection") /\ args[t].drug # NoneValue) =>
         Outcome(ret[t]) =
           Outcome(layer3_contraindication_detection(
                     NormalizedPatients(patients_df), args[t].patient_id,
                     NormalizedName(args[t].drug), args[t].dose))
    /\ (/\ DirectDone(t, "layer0_doctor_authorization")
        /\ prescribers_df.loaded
        /\ PrescriberFound(prescribers_df, args[t].prescriber_id)) =>
         LET row == PrescriberRow(prescribers_df, args[t].prescriber_id) IN
         ret[t].passed <=>
           /\ NormalizedStatus(row.credentialing_status) = NormalizedStatus(s_Active)
           /\ DeaPrefixed(row)
    /\ (/\ DirectDone(t, "layer0_doctor_authorization")
        /\ ~PrescriberFound(prescribers_df, args[t].prescriber_id)) => ~ret[t].passed

\* the case in which C19 fails: the record "diabetes; kidney_disease" and its
\* normalized form "diabetes;kidney_disease" give different outcomes for
\* ibuprofen
C19_Differs ==
  \E t \in Threads :
    /\ DirectDone(t, "layer3_contraindication_detection")
    /\ args[t].patient_id = id_P004 /\ args[t].drug = s_ibuprofen
    /\ PatientKnown(patients_df, id_P004)
    /\ ret[t].passed
    /\ ~layer3_contraindication_detection(NormalizedPatients(patients_df), id_P004,
                                          s_ibuprofen, args[t].dose).passed

\* what the code does normalize: the drug "Morphine " and the liver status
\* "Severe" are matched by the opioid liver rule
C19_CaseFolded ==
  \E t \in Threads :
    /\ DirectDone(t, "layer3_contraindication_detection")
    /\ args[t].patient_id = id_P006 /\ args[t].drug = d_Morphine
    /\ PatientKnown(patients_df, id_P006)
    /\ PatientRow(patients_df, id_P006).liver_status = v_Severe
    /\ Blocked(ret[t], "opioids_liver_disease", "CRITICAL")

(***************************************************************************)
(* C20: the details of a passed layer 1.                                   *)
(***************************************************************************)
\* the record leaves the field unspecified: no such column, or an empty cell
Unspecified(df, row, col) == col \notin df.cols \/ row[col] = NaN

\* the tags of the field, in order, trimmed
TagList(df, row, col) ==
  IF Unspecified(df, row, col) THEN <<>>
  ELSE LET parts == Split(row[col], s_semicolon) IN
       [i \in 1..Len(parts) |-> Strip(parts[i])]

\* tags is the tag collection of the field: one tag per delimited piece, no
\* empty-string tag and no placeholder for a missing value
IsTagCollection(tags, df, row, col) ==
  /\ [i \in 1..Len(tags) |-> Strip(tags[i])] = TagList(df, row, col)
  /\ \A i \in 1..Len(tags) : tags[i] \notin {s_empty, s_nan, NaN}

\* C20: when layer 1 passes, its details carry the conditions and the
\* medications as the tag collections got by splitting the field on ';', an
\* absent or empty field giving an empty collection, and carry liver status
\* and kidney status "normal" whenever the record leaves that status
\* unspecified.
C20_Layer1Details ==
  \A t \in Threads :
    (Layer1Seen(t) /\ Layer1Of(t).passed) =>
      LET df == patients_df
          row == PatientRow(df, args[t].patient_id)
          d == Layer1Of(t).details
      IN
      /\ IsTagCollection(d.conditions, df, row, "conditions")
      /\ IsTagCollection(d.medications, df, row, "medications")
      /\ Unspecified(df, row, "liver_status") => d.liver_status = s_normal
      /\ Unspecified(df, row, "kidney_status") => d.kidney_status = s_normal

\* the case in which C20 fails: the liver_status cell of the patient is empty
\* and the details of the passed layer 1 carry the missing value, not "normal"
C20_NotDefaulted ==
  \E t \in Threads :
    /\ DirectDone(t, "layer1_patient_validation")
    /\ ret[t].passed
    /\ "liver_status" \in patients_df.cols
    /\ PatientRow(patients_df, args[t].patient_id).liver_status = NaN
    /\ ret[t].details.liver_status = NaN

\* what the code does default: on a sheet without the status columns the
\* details carry "normal", and an empty conditions cell gives an empty list
C20_Defaulted ==
  \E t \in Threads :
    /\ DirectDone(t, "layer1_patient_validation")
    /\ ret[t].passed
    /\ "liver_status" \notin patients_df.cols
    /\ ret[t].details.liver_status = s_normal
    /\ ret[t].details.kidney_status = s_normal
    /\ ret[t].details.conditions = <<>>

(***************************************************************************)
(* C21: the counters under concurrent calls.                               *)
(***************************************************************************)
\* every call that was started has returned
AllReturned ==
  /\ \A t \in Threads : pc[t] = "idle"
  /\ tally.returned = tally.started

\* C21: when several analyze_prescription calls run concurrently on one
\* firewall object no counter update is lost: once N calls have all returned,
\* analysis_count = N and approved_count = the number of those calls whose
\* verdict was approved, for every interleaving of the loads and stores.
C21_NoLostUpdate ==
  AllReturned =>
    /\ analysis_count = tally.returned
    /\ approved_count = tally.approved

\* the case in which C21 fails: two calls have returned, both approved, and
\* each counter stands at 1
C21_LostUpdate ==
  /\ AllReturned
  /\ tally.returned = 2 /\ tally.approved = 2
  /\ analysis_count = 1
  /\ approved_count = 1

(***************************************************************************)
(* C22: a reload while a call is in flight.                                *)
(***************************************************************************)
\* no second initialize() is between its first and its last assignment
ReloadSettled == loader \in {"idle", "returned"}

\* every table the call of thread t has read so far is the table of the pair
\* snapshot
ReadFrom(t, snapshot) ==
  /\ IsUnset(seen[t].prescribers0) \/ seen[t].prescribers0 = snapshot[1]
  /\ IsUnset(seen[t].patients1) \/ seen[t].patients1 = snapshot[2]
  /\ IsUnset(seen[t].patients3) \/ seen[t].patients3 = snapshot[2]

\* C22: when initialize() runs again while an analyze_prescription call is in
\* flight, every table the call reads (prescribers in layer 0, patients in
\* layer 1 and again in layer 3) comes from one and the same snapshot, the
\* pair before the reload or the pair after it.
C22_OneSnapshot ==
  \A t \in Threads :
    /\ (~IsUnset(seen[t].patients1) /\ ~IsUnset(seen[t].patients3)) =>
         seen[t].patients1 = seen[t].patients3
    /\ (pc[t] = "done" /\ ReloadSettled) =>
         \E i \in 1..Len(published) : ReadFrom(t, published[i])

\* the case in which C22 fails: oxycodone for patient P002 (liver status
\* severe) is approved, because layer 1 found the patient in the table before
\* the reload and layer 3 did not find the patient in the table after it
C22_TornRead ==
  \E t \in Threads :
    /\ pc[t] = "done"
    /\ args[t].patient_id = id_P002 /\ args[t].drug = s_oxycodone
    /\ seen[t].patients1 = LoadedFirst[2]
    /\ seen[t].patients3 = ReloadedPatients
    /\ ret[t].approved
    /\ ret[t].safety_score = 100

\* the verdict of the same request on either snapshot is a denial
C22_DeniedOnEither ==
  /\ layer3_contraindication_detection(LoadedFirst[2], id_P002, s_oxycodone, 30).passed = FALSE
  /\ layer1_patient_validation(ReloadedPatients, id_P002).passed = FALSE

(***************************************************************************)
(* C23: the counters in a sequential run.                                  *)
(***************************************************************************)
\* this step enters a call of analyze_prescription
CallEntered == \E t \in Threads : pc[t] \in {"idle", "done"} /\ pc'[t] = "layer0"

\* this step returns an approved verdict
ApprovedReturned ==
  \E t \in Threads :
    /\ pc[t] \in LayerPcs /\ pc'[t] = "done"
    /\ IsVerdict(ret'[t]) /\ ret'[t].approved

\* this step returns a denied verdict
DeniedReturned ==
  \E t \in Threads :
    /\ pc[t] \in LayerPcs /\ pc'[t] = "done"
    /\ IsVerdict(ret'[t]) /\ ~ret'[t].approved

C23_Step ==
  /\ analysis_count' = IF CallEntered THEN analysis_count + 1 ELSE analysis_count
  /\ approved_count' = IF ApprovedReturned THEN approved_count + 1 ELSE approved_count
  /\ DeniedReturned => approved_count' = approved_count
  /\ analysis_count' >= analysis_count
  /\ approved_count' >= approved_count

\* C23: in a sequential run each analyze_prescription call increases
\* analysis_count by exactly 1, whatever its verdict and whichever layer
\* failed, and increases approved_count by exactly 1 when the verdict is
\* approved and by 0 otherwise; no step decreases a counter.
C23_Counters == [][C23_Step]_vars

\* C23 witness: a call approved and then a call denied at layer 2 leave
\* analysis_count = 2 and approved_count = 1
C23_Witness ==
  \E t \in Threads :
    /\ HasVerdict(t)
    /\ ~ret[t].approved
    /\ FirstFailing(ret[t]) = 2
    /\ analysis_count = 2
    /\ approved_count = 1

(***************************************************************************)
(* C24: what get_statistics reports.                                       *)
(***************************************************************************)
\* what get_statistics returns when it is called in this state
Statistics == get_statistics(prescribers_df, patients_df, analysis_count, approved_count)

\* the rates from 0% to 100%, written with one decimal
RatesUpTo100 ==
  {Digits(k \div 10) \o <<".">> \o Digits(k % 10) \o <<"%">> : k \in 0..1000}

\* C24: in every reachable state get_statistics reports denied_count =
\* total_analyses - approved_count with 0 <= approved_count <= total_analyses,
\* so denied_count is never negative and the approval rate lies between 0%
\* and 100% (0% when no analysis has run); total_prescribers and
\* total_patients are the sizes of the tables, 0 when they are not loaded.
C24_Statistics ==
  LET s == Statistics IN
  /\ s.total_analyses = analysis_count
  /\ s.approved_count = approved_count
  /\ s.denied_count = s.total_analyses - s.approved_count
  /\ 0 <= s.approved_count /\ s.approved_count <= s.total_analyses
  /\ s.denied_count >= 0
  /\ s.approval_rate \in RatesUpTo100
  /\ s.total_analyses = 0 => s.approval_rate = <<"0", ".", "0", "%">>
  /\ s.total_prescribers = IF prescribers_df.loaded THEN Len(prescribers_df.rows) ELSE 0
  /\ s.total_patients = IF patients_df.loaded THEN Len(patients_df.rows) ELSE 0

\* the case in which C24 fails: two concurrent calls were approved and counted
\* as one analysis; get_statistics reports denied_count = -1 and 200.0%
C24_MoreApprovedThanAnalysed ==
  /\ analysis_count = 1
  /\ approved_count = 2
  /\ Statistics.denied_count = -1
  /\ Statistics.approval_rate = <<"2", "0", "0", ".", "0", "%">>

\* in a sequential run get_statistics returns 50.0% after one approved and one
\* denied call
C24_Half ==
  \E t \in Threads :
    /\ DirectDone(t, "get_statistics")
    /\ ret[t].total_analyses = 2 /\ ret[t].approved_count = 1 /\ ret[t].denied_count = 1
    /\ ret[t].approval_rate = <<"5", "0", ".", "0", "%">>

(***************************************************************************)
(* C25: a failed load.                                                     *)
(***************************************************************************)
\* initialize() has returned from its except clause: it is the only place
\* that leaves a table None
LoadFailed == ~prescribers_df.loaded \/ ~patients_df.loaded

\* C25: if loading fails for either sheet then, after initialize returns, the
\* store holds no prescriber table and no patient table (never one without
\* the other), every get_prescriber and get_patient returns absent, and every
\* analyze_prescription call returns a denied verdict that fails at layer 0
\* with score 0, and no exception.
C25_FailedLoad ==
  LoadFailed =>
    /\ ~prescribers_df.loaded /\ ~patients_df.loaded
    /\ \A t \in Threads :
         /\ DirectDone(t, "get_prescriber") => ret[t] = Absent
         /\ DirectDone(t, "get_patient") => ret[t] = Absent
         /\ AnalyzeDone(t) =>
              /\ IsVerdict(ret[t])
              /\ ~ret[t].approved
              /\ FirstFailing(ret[t]) = 0
              /\ ret[t].safety_score = 0
              /\ ret[t].layer0.message = Msg("Database not loaded", <<>>, <<>>)

\* C25 witness: after a failed load a request that the full sheets approve is
\* denied at layer 0 with score 0
C25_Witness ==
  \E t \in Threads :
    /\ LoadFailed
    /\ HasVerdict(t)
    /\ args[t] = [prescriber_id |-> id_DOC001, patient_id |-> id_P001,
                  drug |-> s_aspirin, dose |-> 30]
    /\ ret[t].safety_score = 0
    /\ ~ret[t].approved

\* after a failed load the lookups return absent for an id of the sheets
C25_LookupAbsent ==
  \E t \in Threads :
    /\ LoadFailed
    /\ DirectDone(t, "get_patient")
    /\ args[t].patient_id = id_P001
    /\ ret[t] = Absent

(***************************************************************************)
(* C26: the lookups are pure reads.                                        *)
(***************************************************************************)
\* v is what a lookup of id under the key column must return
IsLookupOf(v, df, key, id) ==
  IF df.loaded /\ key \in df.cols /\ \E i \in 1..Len(df.rows) : df.rows[i][key] = id
  THEN /\ v # Absent
       /\ DOMAIN v.record = df.cols
       /\ v.record[key] = id
       /\ \E i \in 1..Len(df.rows) : \A c \in df.cols : v.record[c] = df.rows[i][c]
  ELSE v = Absent

Lookups == {"get_patient", "get_prescriber", "get_statistics"}

C26_Returned ==
  \A t \in Threads :
    /\ DirectDone(t, "get_patient") =>
         IsLookupOf(ret[t], patients_df, "patient_id", args[t].patient_id)
    /\ DirectDone(t, "get_prescriber") =>
         IsLookupOf(ret[t], prescribers_df, "doctor_id", args[t].prescriber_id)

\* a step that calls a lookup leaves the tables and the counters as they are
C26_Frame ==
  (\E t \in Threads : pc[t] = "idle" /\ pc'[t] = "done" /\ op'[t] \in Lookups) =>
    UNCHANGED <<prescribers_df, patients_df, analysis_count, approved_count>>

\* C26: get_prescriber and get_patient return the stored record whose id
\* matches, or absent when the table is not loaded or no row matches, and
\* they, like get_statistics, leave analysis_count, approved_count and both
\* tables unchanged.
C26_PureReads == []C26_Returned /\ [][C26_Frame]_vars

\* C26 witness: after one analysis get_patient returns the record of P002
C26_Witness ==
  \E t \in Threads :
    /\ DirectDone(t, "get_patient")
    /\ args[t].patient_id = id_P002
    /\ patients_df.loaded /\ patients_df.cols = PatientColumns
    /\ ret[t] # Absent
    /\ ret[t].record.patient_id = id_P002
    /\ ret[t].record.liver_status = s_severe
    /\ analysis_count = 1

\* get_prescriber returns absent for an id that differs from a stored id in
\* letter case only
C26_ExactId ==
  \E t \in Threads :
    /\ DirectDone(t, "get_prescriber")
    /\ args[t].prescriber_id = id_doc001
    /\ PrescriberFound(prescribers_df, id_DOC001)
    /\ ret[t] = Absent

(***************************************************************************)
(* C27: the 404 of the lookup endpoints.                                   *)
(***************************************************************************)
\* the answer a caller is to get for a record that is missing
NotFound(detail) == [error |-> detail, status_code |-> 404]

\* C27: GET /patients/{id} and GET /prescribers/{id} answer with status 404
\* ('Patient not found' / 'Prescriber not found') when the engine lookup
\* returns absent; the 404 raised for the missing record is what reaches the
\* caller and is not turned into another error status on the way.
C27_NotFound404 ==
  \A t \in Threads :
    /\ (/\ DirectDone(t, "GET /patients/{patient_id}")
        /\ get_patient(patients_df, args[t].patient_id) = Absent) =>
         ret[t] = NotFound("Patient not found")
    /\ (/\ DirectDone(t, "GET /prescribers/{prescriber_id}")
        /\ get_prescriber(prescribers_df, args[t].prescriber_id) = Absent) =>
         ret[t] = NotFound("Prescriber not found")

\* the case in which C27 fails: the answer for the unknown patient P999 has
\* status 400, made from the text of the 404 exception
C27_Answered400 ==
  \E t \in Threads :
    /\ DirectDone(t, "GET /patients/{patient_id}")
    /\ args[t].patient_id = id_P999
    /\ ret[t].status_code = 400
    /\ ret[t].error = StrOfException(HTTPException(404, "Patient not found"))

\* a record that exists is returned as it is
C27_Found ==
  \E t \in Threads :
    /\ DirectDone(t, "GET /patients/{patient_id}")
    /\ args[t].patient_id = id_P001
    /\ ret[t] = get_patient(patients_df, id_P001)
    /\ ret[t] # Absent

(***************************************************************************)
(* C28: the fallback of the dashboard against the engine.                  *)
(***************************************************************************)
\* the verdict analyze_prescription returns for the request a on the tables
EngineVerdict(pdf, qdf, a) ==
  LET l0 == layer0_doctor_authorization(pdf, a.prescriber_id)
      l1 == layer1_patient_validation(qdf, a.patient_id)
      l2 == layer2_drug_safety(a.drug, a.dose)
      l3 == layer3_contraindication_detection(qdf, a.patient_id, a.drug, a.dose)
  IN IF ~l0.passed THEN ReturnLayer0Failed(a, l0)
     ELSE IF ~l1.passed THEN ReturnLayer1Failed(a, l0, l1)
     ELSE IF ~l2.passed THEN ReturnLayer2Failed(a, l0, l1, l2)
     ELSE IF ~l3.passed THEN ReturnLayer3Failed(a, l0, l1, l2, l3)
     ELSE ReturnApproved(a, l0, l1, l2, l3)

\* C28: the fallback evaluation of the dashboard never approves a
\* prescription that analyze_prescription denies for the same prescriber,
\* patient, drug and dose over the same tables, and it gives the score of the
\* engine when the first failing layer is the same.
C28_FallbackAgrees ==
  \A t \in Threads :
    DirectDone(t, "fallback") =>
      LET e == EngineVerdict(prescribers_df, patients_df, args[t]) IN
      /\ ret[t].approved => e.approved
      /\ FirstFailing(ret[t]) = FirstFailing(e) => ret[t].safety_score = e.safety_score

\* the case in which C28 fails: the fallback approves heroin, which the
\* engine denies at layer 2
C28_HeroinApproved ==
  \E t \in Threads :
    /\ DirectDone(t, "fallback")
    /\ args[t] = [prescriber_id |-> id_DOC001, patient_id |-> id_P001,
                  drug |-> s_heroin, dose |-> 30]
    /\ ret[t].approved /\ ret[t].safety_score = 100
    /\ ~EngineVerdict(prescribers_df, patients_df, args[t]).approved
    /\ EngineVerdict(prescribers_df, patients_df, args[t]).safety_score = 50

\* a dose above the ceiling fails layer 2 in both, with score 25 in the
\* fallback and 50 in the engine
C28_OtherScore ==
  \E t \in Threads :
    /\ DirectDone(t, "fallback")
    /\ args[t] = [prescriber_id |-> id_DOC001, patient_id |-> id_P001,
                  drug |-> s_oxycodone, dose |-> 75]
    /\ FirstFailing(ret[t]) = 2 /\ ret[t].safety_score = 25
    /\ FirstFailing(EngineVerdict(prescribers_df, patients_df, args[t])) = 2
    /\ EngineVerdict(prescribers_df, patients_df, args[t]).safety_score = 50

====
